---- MODULE Spec2Model ----
(***************************************************************************)
(* Session cache (api.py) and three-tier memory manager                    *)
(* (services/memory_manager.py) of the 43X automation tester.              *)
(*                                                                         *)
(* Time is an integer clock standing for time.time().  The configuration   *)
(* values of the source (MAX_CACHE_SIZE = 10, CACHE_TIMEOUT = 3600,        *)
(* CLEANUP_INTERVAL = 300) are scaled down so that a full cache, an        *)
(* expired entry and a due sweeper pass are all reached within the bounds. *)
(***************************************************************************)
EXTENDS Integers, Sequences, FiniteSets, TLC

\* ---------------------------------------------------------------- bounds
\* api.py:63 MAX_CACHE_SIZE = 10, scaled.
MAX_CACHE_SIZE == 2
\* api.py:64 CACHE_TIMEOUT = 3600 seconds, scaled to clock ticks.
CACHE_TIMEOUT == 1
\* api.py:65 CLEANUP_INTERVAL = 300 seconds, scaled (shorter than the timeout, as in the source).
CLEANUP_INTERVAL == 1
\* last value of the clock
MaxTime == 2
\* number of cache operations in one run
MaxOps == 4
\* requests served while the tasks are taken statement by statement
MaxConcRequests == 3
\* number of client requests in one run of the unattended service
MaxRequests == 2
\* number of sweeper passes that raise an exception in one run
MaxSweepFaults == 1

\* longest text given to the chunker, in characters
MaxTextLen == 3

\* largest chunk_size of a chunk configuration
MaxChunkSize == 3

\* most summaries long-term memory holds when the context is built
MaxSummaries == 6

\* most rounds given to _generate_summary in one call
MaxSummaryRounds == 2

\* most sentences of one assistant reply
MaxSentences == 3

\* longest message list handed to the context limiter
MaxMessages == 5

\* largest max_messages set for an agent
MaxLimit == 4

\* largest max_short_term_rounds a memory manager is constructed with
MaxM == 3
\* largest compress_rounds a memory manager is constructed with
MaxK == 2
\* number of turns (user messages) of one session in one run
MaxRound == 6
\* number of answer requests of one session while its callers overlap
MaxTurns == 3
\* number of sessions started while one session's answer requests are made
MaxStarts == 3
\* agents.py:149 max_short_term_rounds = 8, scaled.
MAX_SHORT_TERM_ROUNDS == 2
\* agents.py:150 compress_rounds = 5, scaled.
COMPRESS_ROUNDS == 1

\* the session IDs requests may name
SessionIds == {"A", "B", "C"}
\* the agent objects start_test may create
Agents == {"agent1", "agent2"}
\* Python's None, for a session ID and for an agent
None == "None"
\* the texts of the questions and of the answers
Questions == {"q"}
Answers == {"a"}

VARIABLES
    session_cache,  \* OrderedDict: sequence of entries, least recently used first
    cache_stats,    \* hits / misses / evictions
    clock,          \* time.time()
    sweeper_wake,   \* time at which the sweeper's asyncio.sleep ends
    sweeper_task,   \* _cleanup_task: "sleeping" in its loop, or "dead"
    sweep_faults,   \* number of sweeper passes that raised so far
    ops,            \* number of cache operations made so far
    touch,          \* per session: value of ops at its last successful get or put
    last,           \* the last operation: its name, argument and result
    inserted,       \* number of puts of a session ID that was not cached so far
    stopped,        \* number of explicit removals of a cached session so far
    max_rounds,     \* ShortTermMemory.max_rounds
    compress_rounds,\* MemoryManager.compress_rounds
    llm_client,     \* MemoryManager.llm_client: "client" or None
    messages,       \* ShortTermMemory.messages
    current_round,  \* ShortTermMemory.current_round
    summaries,      \* LongTermMemory.summaries
    user_calls,     \* number of add_message calls made with role "user" so far
    turn,           \* position of the session's answer call: "idle" or "awaiting_llm"
    completed,      \* the rounds whose assistant message was recorded
    mlast,          \* the last memory operation and what it did
    pc,             \* per task: the statement it is at
    loc,            \* per task: its request and its local variables
    running,        \* the task the event loop is running, None between tasks
    dropped,        \* number of entries popped for expiry or capacity so far
    gets_started,   \* number of get_from_cache calls begun so far
    created,        \* whether start_test has created the session's agent
    round_count,    \* EntrepreneurAgentManager.round_count
    local_storage,  \* EntrepreneurAgentManager.local_storage: "storage" or None
    snapshot,       \* summary.json: absent, written (and its data), or cut short
    tpc,            \* per caller: position of its answer call
    tloc,           \* per caller: the locals of its answer call
    tlast,          \* the last answer request that ended, and how
    cpc,            \* the statement add_user_message is at, "idle" outside it
    cloc,           \* the locals of add_user_message and the memory on entry
    ctx,            \* the last call of get_context_for_prompt and what it gave
    chunk_config,   \* the ChunkConfig made by create_config, None before
    chunk_call,     \* the last chunk_text_sync call and its outcome
    memory_context, \* the last build_memory_context call and its outcome
    summary_call,   \* the last _generate_summary call and its outcome
    limiter_call    \* the last _valid_truncate call and its outcome

cacheVars == <<session_cache, cache_stats, clock, sweeper_wake, sweeper_task,
               sweep_faults, ops, touch, last, inserted, stopped>>

concVars == <<pc, loc, running, dropped, gets_started>>

stepVars == <<cpc, cloc, ctx>>

utilVars == <<chunk_config, chunk_call, memory_context, summary_call, limiter_call>>

turnVars == <<created, round_count, local_storage, snapshot, tpc, tloc, tlast>>

memVars == <<max_rounds, compress_rounds, llm_client, messages, current_round,
             summaries, turn, completed, mlast, user_calls>>

\* ------------------------------------------------- OrderedDict primitives
Keys(c) == {c[i].sid : i \in 1..Len(c)}

Contains(c, sid) == sid \in Keys(c)

IndexOf(c, sid) == CHOOSE i \in 1..Len(c) : c[i].sid = sid

Entry(c, sid) == c[IndexOf(c, sid)]

\* OrderedDict.pop(key)
Pop(c, sid) == SelectSeq(c, LAMBDA e : e.sid # sid)

\* move_to_end(key, last=False): the key is moved to the front
MoveToEnd_ToFront(c, sid) == <<Entry(c, sid)>> \o Pop(c, sid)

\* OrderedDict.move_to_end(key)
MoveToEnd(c, sid) == Append(Pop(c, sid), Entry(c, sid))

\* cache_entry[field] = value, in place
SetField(c, sid, e) == [c EXCEPT ![IndexOf(c, sid)] = e]

\* ------------------------------------------------------------ api.py:81
\* get_from_cache with the expiry test off by one (>= for >)
get_from_cache_ExpiresEarly(c, st, now, sid) ==
    IF Contains(c, sid)
    THEN LET cache_entry == Entry(c, sid) IN
         IF now - cache_entry.last_activity >= CACHE_TIMEOUT
         THEN [cache |-> Pop(c, sid),
               stats |-> [st EXCEPT !.evictions = @ + 1, !.misses = @ + 1],
               ret   |-> None]
         ELSE [cache |-> MoveToEnd(SetField(c, sid,
                              [cache_entry EXCEPT !.last_activity = now]), sid),
               stats |-> [st EXCEPT !.hits = @ + 1],
               ret   |-> cache_entry.agent]
    ELSE [cache |-> c,
          stats |-> [st EXCEPT !.misses = @ + 1],
          ret   |-> None]

\* get_from_cache that refreshes last_activity but forgets move_to_end
get_from_cache_NoMove(c, st, now, sid) ==
    IF Contains(c, sid)
    THEN LET cache_entry == Entry(c, sid) IN
         IF now - cache_entry.last_activity > CACHE_TIMEOUT
         THEN [cache |-> Pop(c, sid),
               stats |-> [st EXCEPT !.evictions = @ + 1, !.misses = @ + 1],
               ret   |-> None]
         ELSE [cache |-> SetField(c, sid, [cache_entry EXCEPT !.last_activity = now]),
               stats |-> [st EXCEPT !.hits = @ + 1],
               ret   |-> cache_entry.agent]
    ELSE [cache |-> c,
          stats |-> [st EXCEPT !.misses = @ + 1],
          ret   |-> None]

\* get_from_cache whose hit moves the entry without refreshing last_activity
get_from_cache_NoRefresh(c, st, now, sid) ==
    IF Contains(c, sid)
    THEN LET cache_entry == Entry(c, sid) IN
         IF now - cache_entry.last_activity > CACHE_TIMEOUT
         THEN [cache |-> Pop(c, sid),
               stats |-> [st EXCEPT !.evictions = @ + 1, !.misses = @ + 1],
               ret   |-> None]
         ELSE [cache |-> MoveToEnd(c, sid),
               stats |-> [st EXCEPT !.hits = @ + 1],
               ret   |-> cache_entry.agent]
    ELSE [cache |-> c,
          stats |-> [st EXCEPT !.misses = @ + 1],
          ret   |-> None]

\* get_from_cache that counts no miss when it finds the entry expired
get_from_cache_ExpiryUncounted(c, st, now, sid) ==
    IF Contains(c, sid)
    THEN LET cache_entry == Entry(c, sid) IN
         IF now - cache_entry.last_activity > CACHE_TIMEOUT
         THEN [cache |-> Pop(c, sid),
               stats |-> [st EXCEPT !.evictions = @ + 1],
               ret   |-> None]
         ELSE [cache |-> MoveToEnd(SetField(c, sid,
                              [cache_entry EXCEPT !.last_activity = now]), sid),
               stats |-> [st EXCEPT !.hits = @ + 1],
               ret   |-> cache_entry.agent]
    ELSE [cache |-> c,
          stats |-> [st EXCEPT !.misses = @ + 1],
          ret   |-> None]

\* get_from_cache(session_id): the cache, the counters and the returned agent
get_from_cache(c, st, now, sid) ==
    IF Contains(c, sid)
    THEN LET cache_entry == Entry(c, sid) IN
         IF now - cache_entry.last_activity > CACHE_TIMEOUT
         THEN [cache |-> Pop(c, sid),
               stats |-> [st EXCEPT !.evictions = @ + 1, !.misses = @ + 1],
               ret   |-> None]
         ELSE [cache |-> MoveToEnd(SetField(c, sid,
                              [cache_entry EXCEPT !.last_activity = now]), sid),
               stats |-> [st EXCEPT !.hits = @ + 1],
               ret   |-> cache_entry.agent]
    ELSE [cache |-> c,
          stats |-> [st EXCEPT !.misses = @ + 1],
          ret   |-> None]

\* ----------------------------------------------------------- api.py:115
\* the capacity test off by one (> for >=)
EvictIfFull_OffByOne(c, st, sid) ==
    IF Len(c) > MAX_CACHE_SIZE /\ ~Contains(c, sid)
    THEN [cache |-> Tail(c), stats |-> [st EXCEPT !.evictions = @ + 1],
          evicted |-> Head(c).sid]
    ELSE [cache |-> c, stats |-> st, evicted |-> None]

\* first half of add_to_cache: the capacity eviction (popitem(last=False))
EvictIfFull(c, st, sid) ==
    IF Len(c) >= MAX_CACHE_SIZE /\ ~Contains(c, sid)
    THEN [cache |-> Tail(c), stats |-> [st EXCEPT !.evictions = @ + 1],
          evicted |-> Head(c).sid]
    ELSE [cache |-> c, stats |-> st, evicted |-> None]

\* second half of add_to_cache: add or update, then move_to_end
\* add or update without the final move_to_end
InsertOrUpdate_NoMove(c, now, sid, agent) ==
    IF Contains(c, sid)
    THEN SetField(c, sid, [Entry(c, sid) EXCEPT !.agent = agent, !.last_activity = now])
    ELSE Append(c, [sid |-> sid, agent |-> agent,
                    last_activity |-> now, created_at |-> now])

InsertOrUpdate(c, now, sid, agent) ==
    LET c1 == IF Contains(c, sid)
              THEN SetField(c, sid,
                       [Entry(c, sid) EXCEPT !.agent = agent, !.last_activity = now])
              ELSE Append(c, [sid |-> sid, agent |-> agent,
                              last_activity |-> now, created_at |-> now])
    IN MoveToEnd(c1, sid)

add_to_cache(c, st, now, sid, agent) ==
    LET ev == EvictIfFull(c, st, sid) IN
    [cache |-> InsertOrUpdate(ev.cache, now, sid, agent),
     stats |-> ev.stats,
     evicted |-> ev.evicted]

\* ----------------------------------------------------------- api.py:152
\* a removal that drops the oldest entry when the session is absent
remove_from_cache_DropsOldest(c, sid) ==
    IF Contains(c, sid) THEN Pop(c, sid) ELSE IF c = <<>> THEN c ELSE Tail(c)

remove_from_cache(c, sid) == IF Contains(c, sid) THEN Pop(c, sid) ELSE c

\* ----------------------------------------------------------- api.py:164
\* f"{hit_rate:.2%}": the rate as a percentage with two decimals, here the
\* number of hundredths of a percent, rounded to the nearest (a tie needs
\* hits + misses to be a multiple of 32)
Percent2(num, den) == (20000 * num + den) \div (2 * den)

\* get_cache_stats(): hit_rate is 0 when no get was made
get_cache_stats(c, st) ==
    LET total_requests == st.hits + st.misses
        hit_rate == IF total_requests > 0 THEN Percent2(st.hits, total_requests) ELSE 0
    IN [size |-> Len(c), max_size |-> MAX_CACHE_SIZE, hits |-> st.hits,
        misses |-> st.misses, evictions |-> st.evictions, hit_rate |-> hit_rate,
        sessions |-> [i \in 1..Len(c) |-> c[i].sid]]

\* ------------------------------------------------------ api.py:575, 679
\* get_answer and get_status: HTTPException(404) when get_from_cache gave None
lookup_status(agent) == IF agent = None THEN 404 ELSE 200

\* ----------------------------------------------------------- api.py:199
\* a pass that stops at the first expired entry it removes
RECURSIVE BackgroundLoop_StopsEarly(_, _, _, _)
BackgroundLoop_StopsEarly(items, c, st, current_time) ==
    IF items = <<>> THEN [cache |-> c, stats |-> st]
    ELSE LET cache_entry == Head(items)
             idle_time == current_time - cache_entry.last_activity
         IN IF idle_time > CACHE_TIMEOUT
            THEN [cache |-> Pop(c, cache_entry.sid),
                  stats |-> [st EXCEPT !.evictions = @ + 1]]
            ELSE BackgroundLoop_StopsEarly(Tail(items), c, st, current_time)

\* the loop of one background pass over list(session_cache.items())
RECURSIVE BackgroundLoop(_, _, _, _)
BackgroundLoop(items, c, st, current_time) ==
    IF items = <<>> THEN [cache |-> c, stats |-> st]
    ELSE LET cache_entry == Head(items)
             idle_time == current_time - cache_entry.last_activity
         IN IF idle_time > CACHE_TIMEOUT
            THEN BackgroundLoop(Tail(items), Pop(c, cache_entry.sid),
                                [st EXCEPT !.evictions = @ + 1], current_time)
            ELSE BackgroundLoop(Tail(items), c, st, current_time)

\* ----------------------------------------------------------- api.py:759
\* a manual cleanup that leaves the evictions counter alone
RECURSIVE ManualLoop_Uncounted(_, _, _, _)
ManualLoop_Uncounted(items, c, st, current_time) ==
    IF items = <<>> THEN [cache |-> c, stats |-> st]
    ELSE LET cache_entry == Head(items)
             idle_time == current_time - cache_entry.last_activity
         IN IF idle_time > CACHE_TIMEOUT
            THEN ManualLoop_Uncounted(Tail(items), Pop(c, cache_entry.sid), st, current_time)
            ELSE ManualLoop_Uncounted(Tail(items), c, st, current_time)

\* the loop of the manual /api/cache/cleanup endpoint
RECURSIVE ManualLoop(_, _, _, _)
ManualLoop(items, c, st, current_time) ==
    IF items = <<>> THEN [cache |-> c, stats |-> st]
    ELSE LET cache_entry == Head(items)
             idle_time == current_time - cache_entry.last_activity
         IN IF idle_time > CACHE_TIMEOUT
            THEN ManualLoop(Tail(items), Pop(c, cache_entry.sid),
                            [st EXCEPT !.evictions = @ + 1], current_time)
            ELSE ManualLoop(Tail(items), c, st, current_time)

\* ---------------------------------------------------------------- actions
\* last: op is the operation, sid its argument, ret the agent it returned,
\* present whether sid was cached when it began, evicted the session ID it
\* dropped for capacity, removed the number of entries it removed
Did(op, sid, ret, present, evicted, removed) ==
    [op |-> op, sid |-> sid, ret |-> ret, present |-> present,
     evicted |-> evicted, removed |-> removed]

NoOp == Did("init", None, None, FALSE, None, 0)

InitCache ==
    /\ session_cache = <<>>
    /\ cache_stats = [hits |-> 0, misses |-> 0, evictions |-> 0]
    /\ clock = 0
    /\ sweeper_wake = CLEANUP_INTERVAL
    /\ sweeper_task = "sleeping"
    /\ sweep_faults = 0
    /\ ops = 0
    /\ touch = [s \in SessionIds |-> 0]
    /\ last = NoOp
    /\ inserted = 0
    /\ stopped = 0

\* time passes
Tick ==
    /\ clock < MaxTime
    /\ clock' = clock + 1
    /\ UNCHANGED <<session_cache, cache_stats, sweeper_wake, sweeper_task,
                   sweep_faults, ops, touch, last, inserted, stopped>>
    /\ UNCHANGED <<memVars, concVars, turnVars, stepVars, utilVars>>

\* get_answer / get_status look the session up
GetFromCache(sid) ==
    /\ ops < MaxOps
    /\ LET r == get_from_cache(session_cache, cache_stats, clock, sid) IN
       /\ session_cache' = r.cache
       /\ cache_stats' = r.stats
       /\ touch' = IF r.ret # None THEN [touch EXCEPT ![sid] = ops + 1] ELSE touch
       /\ last' = Did("get", sid, r.ret, Contains(session_cache, sid), None,
                    Len(session_cache) - Len(r.cache))
       /\ dropped' = dropped + (Len(session_cache) - Len(r.cache))
    /\ gets_started' = gets_started + 1
    /\ ops' = ops + 1
    /\ UNCHANGED <<clock, sweeper_wake, sweeper_task, sweep_faults, inserted, stopped>>
    /\ UNCHANGED <<memVars, pc, loc, running, turnVars, stepVars, utilVars>>

\* start_test puts the new agent
AddToCache(sid, agent) ==
    /\ ops < MaxOps
    /\ LET r == add_to_cache(session_cache, cache_stats, clock, sid, agent) IN
       /\ session_cache' = r.cache
       /\ cache_stats' = r.stats
       /\ last' = Did("put", sid, None, Contains(session_cache, sid), r.evicted,
                    Cardinality(Keys(session_cache) \ Keys(r.cache)))
       /\ dropped' = dropped + Cardinality(Keys(session_cache) \ Keys(r.cache))
    /\ inserted' = IF Contains(session_cache, sid) THEN inserted ELSE inserted + 1
    /\ touch' = [touch EXCEPT ![sid] = ops + 1]
    /\ ops' = ops + 1
    /\ UNCHANGED <<clock, sweeper_wake, sweeper_task, sweep_faults, stopped>>
    /\ UNCHANGED <<memVars, pc, loc, running, gets_started, turnVars, stepVars, utilVars>>

\* stop_test, and remove_from_cache called for any session ID
RemoveFromCache(sid) ==
    /\ ops < MaxOps
    /\ session_cache' = remove_from_cache(session_cache, sid)
    /\ last' = Did("remove", sid, None, Contains(session_cache, sid), None,
                 Len(session_cache) - Len(session_cache'))
    /\ stopped' = IF Contains(session_cache, sid) THEN stopped + 1 ELSE stopped
    /\ ops' = ops + 1
    /\ UNCHANGED <<cache_stats, clock, sweeper_wake, sweeper_task, sweep_faults,
                   touch, inserted>>
    /\ UNCHANGED <<memVars, concVars, turnVars, stepVars, utilVars>>

\* one pass of cleanup_expired_sessions_background, when its sleep is over
BackgroundSweep ==
    /\ ops < MaxOps
    /\ sweeper_task = "sleeping"
    /\ clock >= sweeper_wake
    /\ LET r == BackgroundLoop(session_cache, session_cache, cache_stats, clock) IN
       /\ session_cache' = r.cache
       /\ cache_stats' = r.stats
    /\ sweeper_wake' = clock + CLEANUP_INTERVAL
    /\ last' = Did("sweep", None, None, FALSE, None,
                 Len(session_cache) - Len(session_cache'))
    /\ dropped' = dropped + (Len(session_cache) - Len(session_cache'))
    /\ ops' = ops + 1
    /\ UNCHANGED <<clock, sweeper_task, sweep_faults, touch, inserted, stopped>>
    /\ UNCHANGED <<memVars, pc, loc, running, gets_started, turnVars, stepVars, utilVars>>

\* POST /api/cache/cleanup
ManualCleanup ==
    /\ ops < MaxOps
    /\ LET r == ManualLoop(session_cache, session_cache, cache_stats, clock) IN
       /\ session_cache' = r.cache
       /\ cache_stats' = r.stats
    /\ last' = Did("cleanup", None, None, FALSE, None,
                 Len(session_cache) - Len(session_cache'))
    /\ dropped' = dropped + (Len(session_cache) - Len(session_cache'))
    /\ ops' = ops + 1
    /\ UNCHANGED <<clock, sweeper_wake, sweeper_task, sweep_faults, touch,
                   inserted, stopped>>
    /\ UNCHANGED <<memVars, pc, loc, running, gets_started, turnVars, stepVars, utilVars>>

NextCache ==
    \/ Tick
    \/ \E sid \in SessionIds : GetFromCache(sid)
    \/ \E sid \in SessionIds, agent \in Agents : AddToCache(sid, agent)
    \/ \E sid \in SessionIds : RemoveFromCache(sid)
    \/ BackgroundSweep
    \/ ManualCleanup


\* ------------------------------------------- the service left unattended
\* a timestamp one tick older on a clock that stays at MaxTime
Older(t) == IF t > 0 THEN t - 1 ELSE 0

\* Time passes without bound.  Up to MaxTime the clock counts; from then on
\* the clock stays and every timestamp grows one tick older instead, which
\* keeps every difference now - timestamp up to MaxTime (> CACHE_TIMEOUT).
LiveTick ==
    /\ IF clock < MaxTime
       THEN /\ clock' = clock + 1
            /\ UNCHANGED <<session_cache, sweeper_wake>>
       ELSE /\ clock' = clock
            /\ session_cache' = [i \in 1..Len(session_cache) |->
                   [session_cache[i] EXCEPT !.last_activity = Older(@),
                                            !.created_at = Older(@)]]
            /\ sweeper_wake' = Older(sweeper_wake)
    /\ UNCHANGED <<cache_stats, sweeper_task, sweep_faults, ops, touch, last,
                   inserted, stopped>>
    /\ UNCHANGED <<memVars, concVars, turnVars, stepVars, utilVars>>

\* the exception that ends a pass kills the task (try around the while loop)
AfterPassRaised_TaskDies == "dead"

\* except Exception inside while True: the error is logged and the loop goes on
AfterPassRaised == "sleeping"

\* one pass of the sweeper, whenever its sleep is over
LiveSweep ==
    /\ sweeper_task = "sleeping"
    /\ clock >= sweeper_wake
    /\ LET r == BackgroundLoop(session_cache, session_cache, cache_stats, clock) IN
       /\ session_cache' = r.cache
       /\ cache_stats' = r.stats
    /\ sweeper_wake' = clock + CLEANUP_INTERVAL
    /\ last' = Did("sweep", None, None, FALSE, None,
                 Len(session_cache) - Len(session_cache'))
    /\ dropped' = dropped + (Len(session_cache) - Len(session_cache'))
    /\ UNCHANGED <<clock, sweeper_task, sweep_faults, ops, touch, inserted, stopped>>
    /\ UNCHANGED <<memVars, pc, loc, running, gets_started, turnVars, stepVars, utilVars>>

\* one pass in which an exception is raised after the first n items
LiveSweepRaises(n) ==
    /\ sweeper_task = "sleeping"
    /\ clock >= sweeper_wake
    /\ sweep_faults < MaxSweepFaults
    /\ n < Len(session_cache)
    /\ LET r == BackgroundLoop(SubSeq(session_cache, 1, n), session_cache,
                               cache_stats, clock) IN
       /\ session_cache' = r.cache
       /\ cache_stats' = r.stats
    /\ sweeper_task' = AfterPassRaised
    /\ sweeper_wake' = clock + CLEANUP_INTERVAL
    /\ sweep_faults' = sweep_faults + 1
    /\ last' = Did("sweep_raised", None, None, FALSE, None,
                 Len(session_cache) - Len(session_cache'))
    /\ dropped' = dropped + (Len(session_cache) - Len(session_cache'))
    /\ UNCHANGED <<clock, ops, touch, inserted, stopped>>
    /\ UNCHANGED <<memVars, pc, loc, running, gets_started, turnVars, stepVars, utilVars>>

\* client requests, while requests are still coming
LiveGet(sid) == ops < MaxRequests /\ GetFromCache(sid)

\* the agent object plays no part in expiry: one stands for all
LivePut(sid) == ops < MaxRequests /\ AddToCache(sid, CHOOSE agent \in Agents : TRUE)

LiveRemove(sid) == ops < MaxRequests /\ RemoveFromCache(sid)

LiveCleanup == ops < MaxRequests /\ ManualCleanup

NextLive ==
    \/ LiveTick
    \/ LiveSweep
    \/ \E n \in 0..MAX_CACHE_SIZE : LiveSweepRaises(n)
    \/ \E sid \in SessionIds : LiveGet(sid)
    \/ \E sid \in SessionIds : LivePut(sid)
    \/ \E sid \in SessionIds : LiveRemove(sid)
    \/ LiveCleanup

\* ============================================ the event loop (asyncio)
\* Every handler of api.py is an async def run by one event loop: a task
\* keeps the loop from one await to the next.  Here the cache functions are
\* taken statement by statement.
Handlers == {"h1", "h2"}
Tasks == Handlers \cup {"sweeper", "shutdown"}
Kinds == {"start", "answer", "status", "stop", "cleanup"}

\* the statements at which a task awaits: between requests, asyncio.sleep
\* (api.py:193), the awaits of start_test before the agent is created,
\* await agent.answer (api.py:591), await _cleanup_task (api.py:248)
AwaitPoints == {"idle", "sleeping", "start_parsing", "await_answer", "await_task"}

\* where a task is once it has finished: the cancelled sweeper, and
\* shutdown_event after its return
Finished == {"cancelled", "stopped"}

\* preemptive threads: a task can lose the processor at any statement
CanSwitch_Preemptive(label) == TRUE

\* the event loop runs another task only when the running one awaits
CanSwitch(label) == label \in AwaitPoints \cup Finished

NoLocals == [kind |-> None, sid |-> None, agent |-> None, ret |-> None,
             items |-> <<>>, now |-> 0]

InitTasks ==
    /\ pc = [t \in Tasks |-> IF t = "sweeper" THEN "sleeping" ELSE "idle"]
    /\ loc = [t \in Tasks |-> NoLocals]
    /\ running = None
    /\ dropped = 0
    /\ gets_started = 0

\* task t is at statement label and has the event loop
At(t, label) == pc[t] = label /\ running \in {None, t}

\* task t goes to statement label with locals l; the locals of a handler
\* that has returned, and of a finished pass, are gone
Goto(t, label, l) ==
    /\ pc' = [pc EXCEPT ![t] = label]
    /\ loc' = [loc EXCEPT ![t] = IF label \in {"idle", "sleeping"} THEN NoLocals ELSE l]
    /\ running' = IF CanSwitch(label) THEN None ELSE t

\* what a statement of a cache function leaves alone, the counts of
\* insertions and explicit removals apart
StatementFrame ==
    UNCHANGED <<sweeper_task, sweep_faults, touch, last>> /\ UNCHANGED <<memVars, turnVars, stepVars, utilVars>>

ConcFrame == StatementFrame /\ UNCHANGED <<inserted, stopped>>

\* time passes, whatever the tasks do
ConcTick ==
    /\ clock < MaxTime
    /\ clock' = clock + 1
    /\ UNCHANGED <<session_cache, cache_stats, sweeper_wake, ops>>
    /\ UNCHANGED concVars
    /\ ConcFrame

\* a request arrives and its handler starts
BeginRequest(t, kind, sid, agent) ==
    /\ t \in Handlers
    /\ At(t, "idle")
    /\ ops < MaxConcRequests
    /\ ops' = ops + 1
    /\ Goto(t, CASE kind = "start" -> "start_parsing"
                 [] kind \in {"answer", "status"} -> "get_1"
                 [] kind = "stop" -> "stop_1"
                 [] kind = "cleanup" -> "sw_start",
            [NoLocals EXCEPT !.kind = kind, !.sid = sid, !.agent = agent])
    /\ UNCHANGED <<session_cache, cache_stats, clock, sweeper_wake, dropped, gets_started>>
    /\ ConcFrame

CacheFrame == UNCHANGED <<clock, sweeper_wake, ops>> /\ ConcFrame

\* api.py:524-527 the agent is created and add_to_cache is called
StartCreate(t) ==
    /\ At(t, "start_parsing")
    /\ Goto(t, "put_1", loc[t])
    /\ UNCHANGED <<session_cache, cache_stats, dropped, gets_started>>
    /\ CacheFrame

\* api.py:91 if session_id in session_cache
GetCheck(t) ==
    /\ At(t, "get_1")
    /\ gets_started' = gets_started + 1
    /\ Goto(t, IF Contains(session_cache, loc[t].sid) THEN "get_2" ELSE "get_miss", loc[t])
    /\ UNCHANGED <<session_cache, cache_stats, dropped>>
    /\ CacheFrame

\* api.py:95 if time.time() - cache_entry["last_activity"] > CACHE_TIMEOUT
GetExpiry(t) ==
    /\ At(t, "get_2")
    /\ Goto(t, IF clock - Entry(session_cache, loc[t].sid).last_activity > CACHE_TIMEOUT
               THEN "get_pop" ELSE "get_refresh", loc[t])
    /\ UNCHANGED <<session_cache, cache_stats, dropped, gets_started>>
    /\ CacheFrame

\* api.py:97 session_cache.pop(session_id)
GetPop(t) ==
    /\ At(t, "get_pop")
    /\ session_cache' = Pop(session_cache, loc[t].sid)
    /\ dropped' = dropped + 1
    /\ Goto(t, "get_ev", loc[t])
    /\ UNCHANGED <<cache_stats, gets_started>>
    /\ CacheFrame

\* api.py:98 cache_stats["evictions"] += 1
GetCountEviction(t) ==
    /\ At(t, "get_ev")
    /\ cache_stats' = [cache_stats EXCEPT !.evictions = @ + 1]
    /\ Goto(t, "get_miss", loc[t])
    /\ UNCHANGED <<session_cache, dropped, gets_started>>
    /\ CacheFrame

\* api.py:99-100 and 110-112 cache_stats["misses"] += 1; return None
GetCountMiss(t) ==
    /\ At(t, "get_miss")
    /\ cache_stats' = [cache_stats EXCEPT !.misses = @ + 1]
    /\ Goto(t, "got", [loc[t] EXCEPT !.ret = None])
    /\ UNCHANGED <<session_cache, dropped, gets_started>>
    /\ CacheFrame

\* api.py:103 cache_entry["last_activity"] = time.time()
GetRefresh(t) ==
    /\ At(t, "get_refresh")
    /\ session_cache' = SetField(session_cache, loc[t].sid,
           [Entry(session_cache, loc[t].sid) EXCEPT !.last_activity = clock])
    /\ Goto(t, "get_move", loc[t])
    /\ UNCHANGED <<cache_stats, dropped, gets_started>>
    /\ CacheFrame

\* api.py:104 session_cache.move_to_end(session_id)
GetMove(t) ==
    /\ At(t, "get_move")
    /\ session_cache' = MoveToEnd(session_cache, loc[t].sid)
    /\ Goto(t, "get_hit", loc[t])
    /\ UNCHANGED <<cache_stats, dropped, gets_started>>
    /\ CacheFrame

\* api.py:106-108 cache_stats["hits"] += 1; return cache_entry["agent"]
GetCountHit(t) ==
    /\ At(t, "get_hit")
    /\ cache_stats' = [cache_stats EXCEPT !.hits = @ + 1]
    /\ Goto(t, "got", [loc[t] EXCEPT !.ret = Entry(session_cache, loc[t].sid).agent])
    /\ UNCHANGED <<session_cache, dropped, gets_started>>
    /\ CacheFrame

\* api.py:577-591 and 681-689: 404 on None; get_answer awaits agent.answer,
\* get_status returns
AfterGet(t) ==
    /\ At(t, "got")
    /\ Goto(t, IF loc[t].ret # None /\ loc[t].kind = "answer"
               THEN "await_answer" ELSE "idle", loc[t])
    /\ UNCHANGED <<session_cache, cache_stats, dropped, gets_started>>
    /\ CacheFrame

\* api.py:591-608 the answer arrives and get_answer returns
AnswerDone(t) ==
    /\ At(t, "await_answer")
    /\ Goto(t, "idle", loc[t])
    /\ UNCHANGED <<session_cache, cache_stats, dropped, gets_started>>
    /\ CacheFrame

\* api.py:124 if len(session_cache) >= MAX_CACHE_SIZE and session_id not in session_cache
PutCheck(t) ==
    /\ At(t, "put_1")
    /\ Goto(t, IF Len(session_cache) >= MAX_CACHE_SIZE /\ ~Contains(session_cache, loc[t].sid)
               THEN "put_pop" ELSE "put_store", loc[t])
    /\ UNCHANGED <<session_cache, cache_stats, dropped, gets_started>>
    /\ CacheFrame

\* api.py:125 session_cache.popitem(last=False)
PutPop(t) ==
    /\ At(t, "put_pop")
    /\ session_cache' = Tail(session_cache)
    /\ dropped' = dropped + 1
    /\ Goto(t, "put_ev", loc[t])
    /\ UNCHANGED <<cache_stats, gets_started>>
    /\ CacheFrame

\* api.py:130 cache_stats["evictions"] += 1
PutCountEviction(t) ==
    /\ At(t, "put_ev")
    /\ cache_stats' = [cache_stats EXCEPT !.evictions = @ + 1]
    /\ Goto(t, "put_store", loc[t])
    /\ UNCHANGED <<session_cache, dropped, gets_started>>
    /\ CacheFrame

\* api.py:133-135 and 139-143 current_time = time.time(); the agent is
\* stored, in the existing entry or in a new one
PutStore(t) ==
    /\ At(t, "put_store")
    /\ IF Contains(session_cache, loc[t].sid)
       THEN /\ session_cache' = SetField(session_cache, loc[t].sid,
                   [Entry(session_cache, loc[t].sid) EXCEPT !.agent = loc[t].agent])
            /\ Goto(t, "put_refresh", [loc[t] EXCEPT !.now = clock])
       ELSE /\ session_cache' = Append(session_cache,
                   [sid |-> loc[t].sid, agent |-> loc[t].agent,
                    last_activity |-> clock, created_at |-> clock])
            /\ Goto(t, "put_move", [loc[t] EXCEPT !.now = clock])
    /\ inserted' = IF Contains(session_cache, loc[t].sid) THEN inserted ELSE inserted + 1
    /\ UNCHANGED <<cache_stats, dropped, gets_started, stopped>>
    /\ UNCHANGED <<clock, sweeper_wake, ops>>
    /\ StatementFrame

\* api.py:136 session_cache[session_id]["last_activity"] = current_time
PutRefresh(t) ==
    /\ At(t, "put_refresh")
    /\ session_cache' = SetField(session_cache, loc[t].sid,
           [Entry(session_cache, loc[t].sid) EXCEPT !.last_activity = loc[t].now])
    /\ Goto(t, "put_move", loc[t])
    /\ UNCHANGED <<cache_stats, dropped, gets_started>>
    /\ CacheFrame

\* api.py:149 session_cache.move_to_end(session_id); start_test returns
PutMove(t) ==
    /\ At(t, "put_move")
    /\ session_cache' = MoveToEnd(session_cache, loc[t].sid)
    /\ Goto(t, "idle", loc[t])
    /\ UNCHANGED <<cache_stats, dropped, gets_started>>
    /\ CacheFrame

\* api.py:633-650 stop_test: if request.session_id in session_cache
StopCheck(t) ==
    /\ At(t, "stop_1")
    /\ Goto(t, IF Contains(session_cache, loc[t].sid) THEN "rem_1" ELSE "idle", loc[t])
    /\ UNCHANGED <<session_cache, cache_stats, dropped, gets_started>>
    /\ CacheFrame

\* api.py:159 remove_from_cache: if session_id in session_cache
RemoveCheck(t) ==
    /\ At(t, "rem_1")
    /\ Goto(t, IF Contains(session_cache, loc[t].sid) THEN "rem_pop" ELSE "idle", loc[t])
    /\ UNCHANGED <<session_cache, cache_stats, dropped, gets_started>>
    /\ CacheFrame

\* api.py:160 session_cache.pop(session_id); stop_test returns
RemovePop(t) ==
    /\ At(t, "rem_pop")
    /\ session_cache' = Pop(session_cache, loc[t].sid)
    /\ stopped' = stopped + 1
    /\ Goto(t, "idle", loc[t])
    /\ UNCHANGED <<cache_stats, dropped, gets_started, inserted>>
    /\ UNCHANGED <<clock, sweeper_wake, ops>>
    /\ StatementFrame

\* api.py:193 the sweeper's sleep is over
SweeperWake ==
    /\ At("sweeper", "sleeping")
    /\ sweeper_task = "sleeping"
    /\ clock >= sweeper_wake
    /\ Goto("sweeper", "sw_start", loc["sweeper"])
    /\ UNCHANGED <<session_cache, cache_stats, dropped, gets_started>>
    /\ CacheFrame

\* api.py:195-199 and 755-759 current_time = time.time(); list(session_cache.items())
SweepSnapshot(t) ==
    /\ At(t, "sw_start")
    /\ Goto(t, "sw_loop", [loc[t] EXCEPT !.items = session_cache, !.now = clock])
    /\ UNCHANGED <<session_cache, cache_stats, dropped, gets_started>>
    /\ CacheFrame

\* api.py:199-201 and 759-761 the next item and its test; after the last
\* item the sweeper sleeps again and the endpoint returns
SweepItem(t) ==
    /\ At(t, "sw_loop")
    /\ IF loc[t].items = <<>>
       THEN /\ Goto(t, IF t = "sweeper" THEN "sleeping" ELSE "idle", loc[t])
            /\ sweeper_wake' = IF t = "sweeper" THEN clock + CLEANUP_INTERVAL
                               ELSE sweeper_wake
       ELSE /\ Goto(t, IF loc[t].now - Head(loc[t].items).last_activity > CACHE_TIMEOUT
                       THEN "sw_pop" ELSE "sw_loop",
                    IF loc[t].now - Head(loc[t].items).last_activity > CACHE_TIMEOUT
                    THEN loc[t] ELSE [loc[t] EXCEPT !.items = Tail(@)])
            /\ UNCHANGED sweeper_wake
    /\ UNCHANGED <<session_cache, cache_stats, dropped, gets_started>>
    /\ UNCHANGED <<clock, ops>>
    /\ ConcFrame

\* api.py:203 and 763 session_cache.pop(session_id)
SweepPop(t) ==
    /\ At(t, "sw_pop")
    /\ session_cache' = Pop(session_cache, Head(loc[t].items).sid)
    /\ dropped' = dropped + 1
    /\ Goto(t, "sw_ev", loc[t])
    /\ UNCHANGED <<cache_stats, gets_started>>
    /\ CacheFrame

\* api.py:204 and 764 cache_stats["evictions"] += 1
SweepCountEviction(t) ==
    /\ At(t, "sw_ev")
    /\ cache_stats' = [cache_stats EXCEPT !.evictions = @ + 1]
    /\ Goto(t, "sw_loop", [loc[t] EXCEPT !.items = Tail(@)])
    /\ UNCHANGED <<session_cache, dropped, gets_started>>
    /\ CacheFrame

NextConc ==
    \/ ConcTick
    \/ \E t \in Handlers, kind \in Kinds, sid \in SessionIds :
          BeginRequest(t, kind, sid, CHOOSE agent \in Agents : TRUE)
    \/ \E t \in Handlers : StartCreate(t)
    \/ \E t \in Handlers : GetCheck(t)
    \/ \E t \in Handlers : GetExpiry(t)
    \/ \E t \in Handlers : GetPop(t)
    \/ \E t \in Handlers : GetCountEviction(t)
    \/ \E t \in Handlers : GetCountMiss(t)
    \/ \E t \in Handlers : GetRefresh(t)
    \/ \E t \in Handlers : GetMove(t)
    \/ \E t \in Handlers : GetCountHit(t)
    \/ \E t \in Handlers : AfterGet(t)
    \/ \E t \in Handlers : AnswerDone(t)
    \/ \E t \in Handlers : PutCheck(t)
    \/ \E t \in Handlers : PutPop(t)
    \/ \E t \in Handlers : PutCountEviction(t)
    \/ \E t \in Handlers : PutStore(t)
    \/ \E t \in Handlers : PutRefresh(t)
    \/ \E t \in Handlers : PutMove(t)
    \/ \E t \in Handlers : StopCheck(t)
    \/ \E t \in Handlers : RemoveCheck(t)
    \/ \E t \in Handlers : RemovePop(t)
    \/ SweeperWake
    \/ \E t \in Tasks : SweepSnapshot(t)
    \/ \E t \in Tasks : SweepItem(t)
    \/ \E t \in Tasks : SweepPop(t)
    \/ \E t \in Tasks : SweepCountEviction(t)

\* ------------------------------------------------ shutdown (api.py:236)
\* the statements of one pass
PassLabels == {"sw_start", "sw_loop", "sw_pop", "sw_ev"}

\* an except clause that catches the cancellation (except BaseException):
\* the error is logged and the loop goes on
on_cancelled_Swallowed == "sleeping"

\* asyncio.CancelledError is not an Exception: except Exception (api.py:211)
\* lets it through, the coroutine ends and the task is cancelled
on_cancelled == "cancelled"

\* a request is accepted while the service is up; here the requests come
\* one after the other (their overlap is the matter of NextConc) and one
\* task serves them
ServeRequest(t, kind, sid) ==
    /\ pc["shutdown"] = "idle"
    /\ t = "h1"
    /\ BeginRequest(t, kind, sid, CHOOSE agent \in Agents : TRUE)

\* the statements of the handlers
HandlerStep(t) ==
    \/ StartCreate(t) \/ GetCheck(t) \/ GetExpiry(t) \/ GetPop(t)
    \/ GetCountEviction(t) \/ GetCountMiss(t) \/ GetRefresh(t) \/ GetMove(t)
    \/ GetCountHit(t) \/ AfterGet(t) \/ AnswerDone(t)
    \/ PutCheck(t) \/ PutPop(t) \/ PutCountEviction(t) \/ PutStore(t)
    \/ PutRefresh(t) \/ PutMove(t)
    \/ StopCheck(t) \/ RemoveCheck(t) \/ RemovePop(t)

\* the statements of a pass, of the sweeper or of the manual cleanup
PassStep(t) ==
    SweepSnapshot(t) \/ SweepItem(t) \/ SweepPop(t) \/ SweepCountEviction(t)

\* api.py:245-248 the server runs shutdown_event once the requests in
\* progress have been answered: _cleanup_task.cancel(), await _cleanup_task
ShutdownBegin ==
    /\ At("shutdown", "idle")
    /\ \A t \in Handlers : pc[t] = "idle"
    /\ sweeper_task' = IF sweeper_task = "sleeping" THEN "cancelling" ELSE sweeper_task
    /\ Goto("shutdown", "await_task", loc["shutdown"])
    /\ UNCHANGED <<session_cache, cache_stats, dropped, gets_started>>
    /\ UNCHANGED <<clock, sweeper_wake, ops>>
    /\ UNCHANGED <<sweep_faults, touch, last, inserted, stopped>>
    /\ UNCHANGED <<memVars, turnVars, stepVars, utilVars>>

\* the event loop throws CancelledError into the sweeper where it is suspended
SweeperCancelled ==
    /\ running = None
    /\ sweeper_task = "cancelling"
    /\ sweeper_task' = on_cancelled
    /\ Goto("sweeper", on_cancelled, loc["sweeper"])
    /\ UNCHANGED <<session_cache, cache_stats, dropped, gets_started>>
    /\ UNCHANGED <<clock, sweeper_wake, ops>>
    /\ UNCHANGED <<sweep_faults, touch, last, inserted, stopped>>
    /\ UNCHANGED <<memVars, turnVars, stepVars, utilVars>>

\* api.py:247-250 the awaited task is done: CancelledError is suppressed
ShutdownAwaited ==
    /\ At("shutdown", "await_task")
    /\ pc["sweeper"] \in Finished
    /\ Goto("shutdown", "sd_clear", loc["shutdown"])
    /\ UNCHANGED <<session_cache, cache_stats, dropped, gets_started>>
    /\ CacheFrame

\* api.py:252-254 session_cache.clear(); shutdown_event returns
ShutdownClear ==
    /\ At("shutdown", "sd_clear")
    /\ session_cache' = <<>>
    /\ Goto("shutdown", "stopped", loc["shutdown"])
    /\ UNCHANGED <<cache_stats, dropped, gets_started>>
    /\ CacheFrame

\* the steps of the shutdown that the event loop takes when they are ready
ShutdownStep == SweeperCancelled \/ ShutdownAwaited \/ ShutdownClear

NextShutdown ==
    \/ ConcTick
    \/ \E t \in Handlers, kind \in Kinds, sid \in SessionIds : ServeRequest(t, kind, sid)
    \/ \E t \in Handlers : HandlerStep(t)
    \/ SweeperWake
    \/ \E t \in Tasks : PassStep(t)
    \/ ShutdownBegin
    \/ ShutdownStep

\* =================================================== memory_manager.py
Min(a, b) == IF a < b THEN a ELSE b

SetMin(S) == CHOOSE x \in S : \A y \in S : x <= y

SetMax(S) == CHOOSE x \in S : \A y \in S : x >= y

\* sorted(set)
RECURSIVE Sorted(_)
Sorted(S) == IF S = {} THEN <<>> ELSE <<SetMin(S)>> \o Sorted(S \ {SetMin(S)})

\* seq[:n]
Prefix(seq, n) == SubSeq(seq, 1, Min(n, Len(seq)))

Elems(seq) == {seq[i] : i \in 1..Len(seq)}

RoundsOf(msgs) == {msgs[i].round_number : i \in 1..Len(msgs)}

\* add_message that starts a new round only after an assistant message
add_message_RoundPerExchange(msgs, cur, role, content) ==
    LET round == IF role = "user" /\ (msgs = <<>> \/ msgs[Len(msgs)].role = "assistant")
                 THEN cur + 1 ELSE cur IN
    [current_round |-> round,
     messages |-> Append(msgs, [role |-> role, content |-> content,
                                timestamp |-> clock, round_number |-> round])]

\* add_message that numbers a round by the rounds held in the log
add_message_RoundFromLog(msgs, cur, role, content) ==
    LET round == IF role = "user" THEN Cardinality(RoundsOf(msgs)) + 1 ELSE cur IN
    [current_round |-> round,
     messages |-> Append(msgs, [role |-> role, content |-> content,
                                timestamp |-> clock, round_number |-> round])]

\* ShortTermMemory.add_message: the new current_round and the new log; the
\* timestamp of a Message defaults to time.time()
add_message(msgs, cur, role, content) ==
    LET round == IF role = "user" THEN cur + 1 ELSE cur IN
    [current_round |-> round,
     messages |-> Append(msgs, [role |-> role, content |-> content,
                                timestamp |-> clock, round_number |-> round])]

\* the fullness test off by one (> for >=)
is_full_OffByOne(msgs, M) ==
    Cardinality({i \in 1..Len(msgs) : msgs[i].role = "user"}) > M

\* the fullness test that fires one round early
is_full_Early(msgs, M) ==
    Cardinality({i \in 1..Len(msgs) : msgs[i].role = "user"}) >= M - 1

\* the fullness test on the number of messages
is_full_CountsMessages(msgs, M) == Len(msgs) >= M

\* ShortTermMemory.is_full
is_full(msgs, M) ==
    Cardinality({i \in 1..Len(msgs) : msgs[i].role = "user"}) >= M

\* Suffix(seq, n): seq[-n:]
Suffix(seq, n) == SubSeq(seq, Len(seq) - Min(n, Len(seq)) + 1, Len(seq))

\* a compaction that takes the newest rounds (round_numbers[-num_rounds:])
get_oldest_rounds_Newest(msgs, num_rounds) ==
    IF msgs = <<>> THEN <<>>
    ELSE LET round_numbers == Sorted(RoundsOf(msgs))
             target_rounds == Elems(Suffix(round_numbers, num_rounds))
         IN SelectSeq(msgs, LAMBDA m : m.round_number \in target_rounds)

\* a compaction that takes one round whatever num_rounds is (round_numbers[:1])
get_oldest_rounds_OneRound(msgs, num_rounds) ==
    IF msgs = <<>> THEN <<>>
    ELSE LET round_numbers == Sorted(RoundsOf(msgs))
             target_rounds == Elems(Prefix(round_numbers, 1))
         IN SelectSeq(msgs, LAMBDA m : m.round_number \in target_rounds)

\* ShortTermMemory.get_oldest_rounds
get_oldest_rounds(msgs, num_rounds) ==
    IF msgs = <<>> THEN <<>>
    ELSE LET round_numbers == Sorted(RoundsOf(msgs))
             target_rounds == Elems(Prefix(round_numbers, num_rounds))
         IN SelectSeq(msgs, LAMBDA m : m.round_number \in target_rounds)

\* ShortTermMemory.remove_rounds
remove_rounds(msgs, round_numbers) ==
    SelectSeq(msgs, LAMBDA m : m.round_number \notin round_numbers)

\* a range that records only the first compacted round
RoundRange_MinOnly(msgs) == <<SetMin(RoundsOf(msgs)), SetMin(RoundsOf(msgs))>>

\* round_range = (min(round_numbers), max(round_numbers))
RoundRange(msgs) == <<SetMin(RoundsOf(msgs)), SetMax(RoundsOf(msgs))>>

\* MemoryManager._generate_summary: the rule-based summary without a client,
\* the LLM summary, or the "simple rule" summary when the LLM call raised;
\* via stands for the texts summary and key_facts, the timestamp of a
\* ConversationSummary defaults to time.time()
generate_summary(msgs, client, llm_ok) ==
    [round_range |-> RoundRange(msgs),
     via |-> IF client = None THEN "rule"
             ELSE IF llm_ok THEN "llm" ELSE "llm_failed_rule",
     timestamp |-> clock]

\* MemoryManager._compress_memory
compress_memory(msgs, sums, K, client, llm_ok) ==
    LET oldest_messages == get_oldest_rounds(msgs, K) IN
    IF oldest_messages = <<>>
    THEN [messages |-> msgs, summaries |-> sums]
    ELSE [messages |-> remove_rounds(msgs, RoundsOf(oldest_messages)),
          summaries |-> Append(sums, generate_summary(oldest_messages, client, llm_ok))]

\* add_user_message that tests fullness after the append
add_user_message_CompressAfter(msgs, sums, cur, M, K, client, llm_ok, content) ==
    LET a == add_message(msgs, cur, "user", content)
        c == IF is_full(a.messages, M)
             THEN compress_memory(a.messages, sums, K, client, llm_ok)
             ELSE [messages |-> a.messages, summaries |-> sums]
    IN [messages |-> c.messages, summaries |-> c.summaries,
        current_round |-> a.current_round]

\* MemoryManager.add_user_message
add_user_message(msgs, sums, cur, M, K, client, llm_ok, content) ==
    LET c == IF is_full(msgs, M)
             THEN compress_memory(msgs, sums, K, client, llm_ok)
             ELSE [messages |-> msgs, summaries |-> sums]
        a == add_message(c.messages, cur, "user", content)
    IN [messages |-> a.messages, summaries |-> c.summaries,
        current_round |-> a.current_round]

\* add_assistant_message that closes the round: the next round starts with
\* the reply
add_assistant_message_ClosesRound(msgs, cur, content) ==
    [add_message(msgs, cur, "assistant", content) EXCEPT !.current_round = cur + 1]

\* MemoryManager.add_assistant_message
add_assistant_message(msgs, cur, content) == add_message(msgs, cur, "assistant", content)

\* what the content store does when searched: there is no RAG service, the
\* search finds chunks or nothing, or it raises
StoreOutcomes == {"absent", "found", "empty", "raises"}

Called(rag, raised, summary_block, transcript, materials) ==
    [called |-> TRUE, rag |-> rag, raised |-> raised, summary_block |-> summary_block,
     transcript |-> transcript, materials |-> materials]

NoContext == [called |-> FALSE, rag |-> None, raised |-> FALSE, summary_block |-> <<>>,
              transcript |-> <<>>, materials |-> <<>>]

\* MaterialStore.search_material: [] without a RAG service, else whatever
\* rag_service.search gives, its exception included
search_material(rag) ==
    IF rag = "absent" THEN [raised |-> FALSE, materials |-> <<>>]
    ELSE IF rag = "raises" THEN [raised |-> TRUE, materials |-> <<>>]
    ELSE [raised |-> FALSE, materials |-> IF rag = "found" THEN <<"chunk">> ELSE <<>>]

\* MemoryManager.get_context_for_prompt: the summaries, the transcript, then
\* the search; nothing is returned when the search raises
get_context_for_prompt(sums, msgs, rag) ==
    LET summary_block == [i \in 1..Len(sums) |->
                             [heading |-> sums[i].round_range, text |-> sums[i].via]]
        transcript == [i \in 1..Len(msgs) |->
                          [role_name |-> IF msgs[i].role = "user" THEN "yonghu" ELSE "zhushou",
                           content |-> msgs[i].content]]
        found == search_material(rag)
    IN IF found.raised
       THEN Called(rag, TRUE, <<>>, <<>>, <<>>)
       ELSE Called(rag, FALSE, summary_block, transcript, found.materials)

\* the memory manager as constructed
MemFresh(M, K, client) ==
    /\ max_rounds = M
    /\ compress_rounds = K
    /\ llm_client = client
    /\ messages = <<>>
    /\ current_round = 0
    /\ summaries = <<>>
    /\ user_calls = 0
    /\ turn = "idle"
    /\ completed = {}
    /\ mlast = [op |-> "init", was_full |-> FALSE]

InitMem == \E M \in 1..MaxM, K \in 1..MaxK, client \in {None, "client"} :
               MemFresh(M, K, client)

\* answer(): the question is recorded, then the LLM is awaited
AddUserMessage(content, llm_ok) ==
    /\ turn = "idle"
    /\ current_round < MaxRound
    /\ LET r == add_user_message(messages, summaries, current_round, max_rounds,
                                 compress_rounds, llm_client, llm_ok, content) IN
       /\ messages' = r.messages
       /\ summaries' = r.summaries
       /\ current_round' = r.current_round
    /\ mlast' = [op |-> "user",
                 was_full |-> Cardinality({i \in 1..Len(messages) :
                                  messages[i].role = "user"}) >= max_rounds]
    /\ user_calls' = user_calls + 1
    /\ turn' = "awaiting_llm"
    /\ UNCHANGED <<max_rounds, compress_rounds, llm_client, completed>>
    /\ UNCHANGED <<cacheVars, concVars, turnVars, stepVars, utilVars>>

\* answer(): the LLM answered and the answer is recorded
AddAssistantMessage(content) ==
    /\ turn = "awaiting_llm"
    /\ LET r == add_assistant_message(messages, current_round, content) IN
       /\ messages' = r.messages
       /\ current_round' = r.current_round
    /\ completed' = completed \cup {current_round}
    /\ mlast' = [op |-> "assistant", was_full |-> FALSE]
    /\ turn' = "idle"
    /\ UNCHANGED <<max_rounds, compress_rounds, llm_client, summaries, user_calls>>
    /\ UNCHANGED <<cacheVars, concVars, turnVars, stepVars, utilVars>>

\* answer(): the LLM call raised, no assistant message is recorded
TurnFails ==
    /\ turn = "awaiting_llm"
    /\ mlast' = [op |-> "failed", was_full |-> FALSE]
    /\ turn' = "idle"
    /\ UNCHANGED <<max_rounds, compress_rounds, llm_client, messages,
                   current_round, summaries, user_calls, completed>>
    /\ UNCHANGED <<cacheVars, concVars, turnVars, stepVars, utilVars>>

\* a turn of the session, while no context is being used
ContextIdle == ctx = NoContext

MemUser(content, llm_ok) == ContextIdle /\ AddUserMessage(content, llm_ok)

MemAssistant(content) == ContextIdle /\ AddAssistantMessage(content)

MemTurnFails == ContextIdle /\ TurnFails

\* get_context_for_prompt(query) is called
GetContext(rag) ==
    /\ ContextIdle
    /\ ctx' = get_context_for_prompt(summaries, messages, rag)
    /\ UNCHANGED <<cpc, cloc>>
    /\ UNCHANGED <<cacheVars, memVars, concVars, turnVars, utilVars>>

\* the caller has used the context, or handled the exception
ContextUsed ==
    /\ ctx.called
    /\ ctx' = NoContext
    /\ UNCHANGED <<cpc, cloc>>
    /\ UNCHANGED <<cacheVars, memVars, concVars, turnVars, utilVars>>

NextContext ==
    \/ \E content \in Questions, llm_ok \in BOOLEAN : MemUser(content, llm_ok)
    \/ \E content \in Answers : MemAssistant(content)
    \/ MemTurnFails
    \/ \E rag \in StoreOutcomes : GetContext(rag)
    \/ ContextUsed

NextMem ==
    \/ \E content \in Questions, llm_ok \in BOOLEAN : AddUserMessage(content, llm_ok)
    \/ \E content \in Answers : AddAssistantMessage(content)
    \/ TurnFails

\* ------------------------------ ShortTermMemory on its own (no removals)
Roles == {"user", "assistant"}

ContentsOf(role) == IF role = "user" THEN Questions ELSE Answers

\* ShortTermMemory(max_rounds=M)
InitShort == \E M \in 1..MaxM : MemFresh(M, COMPRESS_ROUNDS, None)

\* short_term.add_message(role, content), in any order of roles
ShortAddMessage(role, content) ==
    /\ Len(messages) < 2 * MaxM
    /\ LET a == add_message(messages, current_round, role, content) IN
       /\ messages' = a.messages
       /\ current_round' = a.current_round
    /\ user_calls' = IF role = "user" THEN user_calls + 1 ELSE user_calls
    /\ mlast' = [op |-> role, was_full |-> is_full(messages, max_rounds)]
    /\ UNCHANGED <<max_rounds, compress_rounds, llm_client, summaries, turn, completed>>
    /\ UNCHANGED <<cacheVars, concVars, turnVars, stepVars, utilVars>>

NextShort == \E role \in Roles : \E content \in ContentsOf(role) :
                 ShortAddMessage(role, content)

\* ------------------------- add_user_message, statement by statement
NoSummary == [round_range |-> <<0, 0>>, via |-> None, timestamp |-> 0]

NoStep == [content |-> None, oldest_messages |-> <<>>, summary |-> NoSummary,
           entry_messages |-> <<>>, entry_summaries |-> <<>>,
           compacted |-> FALSE, llm_raised |-> FALSE]

InitStep == cpc = "idle" /\ cloc = NoStep /\ ctx = NoContext

\* what no statement of add_user_message touches
StepBaseFrame ==
    /\ UNCHANGED ctx
    /\ UNCHANGED <<max_rounds, compress_rounds, llm_client, turn, completed, mlast>>
    /\ UNCHANGED <<cacheVars, concVars, turnVars, utilVars>>

StepFrame == StepBaseFrame /\ UNCHANGED user_calls

\* an except clause in _generate_summary that lets the exception go on to
\* _compress_memory, which abandons the compaction
after_llm_raised_Propagates == "append"

\* _generate_summary, except Exception: the summary is made by the simple
\* rule and returned to _compress_memory, which goes on
after_llm_raised == "add_summary"

\* memory_manager.py:312 add_user_message is entered: if self.short_term.is_full()
UserEnter(content) ==
    /\ cpc = "idle"
    /\ current_round < MaxRound
    /\ cpc' = IF is_full(messages, max_rounds) THEN "get_oldest" ELSE "append"
    /\ cloc' = [NoStep EXCEPT !.content = content, !.entry_messages = messages,
                              !.entry_summaries = summaries]
    /\ UNCHANGED <<messages, summaries, current_round>>
    /\ StepFrame

\* memory_manager.py:341-345 oldest_messages = get_oldest_rounds(...)
GetOldest ==
    /\ cpc = "get_oldest"
    /\ LET oldest_messages == get_oldest_rounds(messages, compress_rounds) IN
       /\ cloc' = [cloc EXCEPT !.oldest_messages = oldest_messages]
       /\ cpc' = IF oldest_messages = <<>> THEN "append" ELSE "summarizing"
    /\ UNCHANGED <<messages, summaries, current_round>>
    /\ StepFrame

\* memory_manager.py:385-445 the summary by rule without a client, or the
\* LLM's summary
SummaryMade ==
    /\ cpc = "summarizing"
    /\ cloc' = [cloc EXCEPT !.summary = generate_summary(cloc.oldest_messages, llm_client, TRUE)]
    /\ cpc' = "add_summary"
    /\ UNCHANGED <<messages, summaries, current_round>>
    /\ StepFrame

\* memory_manager.py:439-462 _call_llm_for_summary raises
SummarizerRaises ==
    /\ cpc = "summarizing"
    /\ llm_client # None
    /\ cloc' = [cloc EXCEPT !.summary = generate_summary(cloc.oldest_messages, llm_client, FALSE),
                            !.llm_raised = TRUE]
    /\ cpc' = after_llm_raised
    /\ UNCHANGED <<messages, summaries, current_round>>
    /\ StepFrame

\* memory_manager.py:351 self.long_term.add_summary(summary)
AddSummary ==
    /\ cpc = "add_summary"
    /\ summaries' = Append(summaries, cloc.summary)
    /\ cpc' = "remove_rounds"
    /\ UNCHANGED <<messages, current_round, cloc>>
    /\ StepFrame

\* memory_manager.py:354-355 self.short_term.remove_rounds(round_numbers)
RemoveRounds ==
    /\ cpc = "remove_rounds"
    /\ messages' = remove_rounds(messages, RoundsOf(cloc.oldest_messages))
    /\ cloc' = [cloc EXCEPT !.compacted = TRUE]
    /\ cpc' = "append"
    /\ UNCHANGED <<summaries, current_round>>
    /\ StepFrame

\* memory_manager.py:317-319 self.short_term.add_message("user", content)
AppendUser ==
    /\ cpc = "append"
    /\ LET a == add_message(messages, current_round, "user", cloc.content) IN
       /\ messages' = a.messages
       /\ current_round' = a.current_round
    /\ user_calls' = user_calls + 1
    /\ cpc' = "returned"
    /\ UNCHANGED <<summaries, cloc>>
    /\ StepBaseFrame

\* the turn goes on: the answer is recorded, or the turn fails
StepAssistant(content) ==
    /\ cpc = "returned"
    /\ messages' = add_assistant_message(messages, current_round, content).messages
    /\ cpc' = "idle"
    /\ UNCHANGED <<summaries, current_round, cloc>>
    /\ StepFrame

StepTurnFails ==
    /\ cpc = "returned"
    /\ cpc' = "idle"
    /\ UNCHANGED <<messages, summaries, current_round, cloc>>
    /\ StepFrame

NextStep ==
    \/ \E content \in Questions : UserEnter(content)
    \/ GetOldest
    \/ SummaryMade
    \/ SummarizerRaises
    \/ AddSummary
    \/ RemoveRounds
    \/ AppendUser
    \/ \E content \in Answers : StepAssistant(content)
    \/ StepTurnFails

\* =========================================================== agents.py
\* One session and the answer requests made for it.  get_answer has no lock:
\* a second request of the session can enter answer() while the first awaits
\* the LLM.  The callers are interchangeable: a request is taken by the first
\* caller that is idle.
Callers == {1, 2}

\* the session the requests are made for
TheSession == "A"

NoTurn == [question |-> None, call_no |-> 0, asked_round |-> 0, rag_ok |-> TRUE]

\* how an answer request ended: what it returned, the round its question and
\* its answer were stored with, and which of its dependencies worked
Ended(outcome, ret, asked_round, stored_round, call_no, rag_ok, save_ok, store_ok) ==
    [outcome |-> outcome, ret |-> ret,
     asked_round |-> asked_round, stored_round |-> stored_round,
     call_no |-> call_no, rag_ok |-> rag_ok, save_ok |-> save_ok, store_ok |-> store_ok]

NothingEnded == Ended("init", None, 0, 0, 0, TRUE, TRUE, TRUE)

\* _save_memory_to_file: the data written to summary.json
save_memory(msgs, sums, cur) ==
    [current_round |-> cur,
     long_term_summaries |->
         [i \in 1..Len(sums) |->
             [summary |-> sums[i].via,
              round_range |-> <<sums[i].round_range[1], sums[i].round_range[2]>>,
              timestamp |-> sums[i].timestamp]],
     short_term_messages |->
         [i \in 1..Len(msgs) |->
             [role |-> msgs[i].role, content |-> msgs[i].content,
              timestamp |-> msgs[i].timestamp,
              round_number |-> msgs[i].round_number]]]

\* summary.json: absent, written whole, or cut short by a write that raised
NoFile == [file |-> "absent", data |-> save_memory(<<>>, <<>>, 0)]

Written(data) == [file |-> "written", data |-> data]

CutShort == [file |-> "cut_short", data |-> save_memory(<<>>, <<>>, 0)]

\* a load that replays the messages through add_message
load_memory_Replay(data) ==
    [summaries |->
         [i \in 1..Len(data.long_term_summaries) |->
             [round_range |-> <<data.long_term_summaries[i].round_range[1],
                                data.long_term_summaries[i].round_range[2]>>,
              via |-> data.long_term_summaries[i].summary,
              timestamp |-> data.long_term_summaries[i].timestamp]],
     messages |->
         [i \in 1..Len(data.short_term_messages) |->
             [role |-> data.short_term_messages[i].role,
              content |-> data.short_term_messages[i].content,
              timestamp |-> data.short_term_messages[i].timestamp,
              round_number |->
                  Cardinality({j \in 1..i : data.short_term_messages[j].role = "user"})]],
     current_round |-> data.current_round]

\* _load_memory_from_file into a memory manager just constructed
load_memory(data) ==
    [summaries |->
         [i \in 1..Len(data.long_term_summaries) |->
             [round_range |-> <<data.long_term_summaries[i].round_range[1],
                                data.long_term_summaries[i].round_range[2]>>,
              via |-> data.long_term_summaries[i].summary,
              timestamp |-> data.long_term_summaries[i].timestamp]],
     messages |->
         [i \in 1..Len(data.short_term_messages) |->
             [role |-> data.short_term_messages[i].role,
              content |-> data.short_term_messages[i].content,
              timestamp |-> data.short_term_messages[i].timestamp,
              round_number |-> data.short_term_messages[i].round_number]],
     current_round |-> data.current_round]

\* EntrepreneurAgentManager.__init__, before start_test has run
AgentFresh(storage) ==
    /\ created = FALSE
    /\ round_count = 0
    /\ local_storage = storage
    /\ snapshot = NoFile
    /\ tpc = [c \in Callers |-> "idle"]
    /\ tloc = [c \in Callers |-> NoTurn]
    /\ tlast = NothingEnded

\* _initialize_local_storage gives the storage, or None when it failed
InitAgent == \E storage \in {"storage", None} : AgentFresh(storage)

TurnCacheFrame ==
    UNCHANGED <<sweeper_wake, sweeper_task, sweep_faults, touch, last, stopped>>

TurnMemBaseFrame ==
    UNCHANGED <<max_rounds, compress_rounds, llm_client, turn, completed, mlast>>

TurnMemFrame == TurnMemBaseFrame /\ UNCHANGED user_calls

\* time passes
TurnTick ==
    /\ clock < MaxTime
    /\ clock' = clock + 1
    /\ UNCHANGED <<session_cache, cache_stats, ops, inserted>>
    /\ TurnCacheFrame
    /\ UNCHANGED <<memVars, concVars, turnVars, stepVars, utilVars>>

\* start_test: the agent is created and cached
StartSession ==
    /\ ~created
    /\ created' = TRUE
    /\ LET r == add_to_cache(session_cache, cache_stats, clock, TheSession,
                             CHOOSE agent \in Agents : TRUE) IN
       /\ session_cache' = r.cache
       /\ cache_stats' = r.stats
       /\ dropped' = dropped + Cardinality(Keys(session_cache) \ Keys(r.cache))
    /\ inserted' = IF Contains(session_cache, TheSession) THEN inserted ELSE inserted + 1
    /\ UNCHANGED <<clock, ops>>
    /\ TurnCacheFrame
    /\ UNCHANGED <<round_count, local_storage, snapshot, tpc, tloc, tlast>>
    /\ UNCHANGED <<memVars, pc, loc, running, gets_started, stepVars, utilVars>>

\* get_answer up to its await: get_from_cache, then answer() up to the await
\* of the runner: round_count += 1, add_user_message, the RAG search (which
\* finds something or nothing, or raises)
BeginTurn(c, question, rag_ok, llm_ok) ==
    /\ created
    /\ tpc[c] = "idle"
    /\ \A d \in Callers : d < c => tpc[d] # "idle"
    /\ ops < MaxTurns
    /\ ops' = ops + 1
    /\ LET g == get_from_cache(session_cache, cache_stats, clock, TheSession) IN
       /\ session_cache' = g.cache
       /\ cache_stats' = g.stats
       /\ dropped' = dropped + (Len(session_cache) - Len(g.cache))
       /\ IF g.ret = None
          THEN /\ tlast' = Ended("404", None, 0, 0, 0, TRUE, TRUE, TRUE)
               /\ UNCHANGED <<round_count, tpc, tloc, messages, summaries,
                              current_round, user_calls>>
          ELSE LET r == add_user_message(messages, summaries, current_round, max_rounds,
                                         compress_rounds, llm_client, llm_ok, question) IN
               /\ round_count' = round_count + 1
               /\ messages' = r.messages
               /\ summaries' = r.summaries
               /\ current_round' = r.current_round
               /\ user_calls' = user_calls + 1
               /\ tpc' = [tpc EXCEPT ![c] = "awaiting_llm"]
               /\ tloc' = [tloc EXCEPT ![c] =
                              [question |-> question, call_no |-> round_count + 1,
                               asked_round |-> r.current_round, rag_ok |-> rag_ok]]
               /\ UNCHANGED tlast
    /\ gets_started' = gets_started + 1
    /\ UNCHANGED <<clock, inserted>>
    /\ TurnCacheFrame
    /\ TurnMemBaseFrame
    /\ UNCHANGED <<created, local_storage, snapshot>>
    /\ UNCHANGED <<pc, loc, running, stepVars, utilVars>>

\* the same, when no other answer call of the session is in progress
BeginTurnAlone(c, question, rag_ok, llm_ok) ==
    /\ \A d \in Callers : tpc[d] = "idle"
    /\ BeginTurn(c, question, rag_ok, llm_ok)

\* an answer() in which a failed save of the snapshot reaches the outer except
after_dependencies_SaveAborts(rag_ok, save_ok, store_ok) ==
    IF save_ok THEN "return_answer" ELSE "except"

\* answer(): the RAG search (agents.py:467-482), _save_memory_to_file
\* (401-438) and the local storage (537-558) each catch their own exception
after_dependencies(rag_ok, save_ok, store_ok) == "return_answer"

\* an except clause that re-raises whatever the round
on_failure_AlwaysRaises(rc) == "raised"

\* answer(), except Exception: re-raise if self.round_count == 1, else
\* return error_message
on_failure(rc) == IF rc = 1 THEN "raised" ELSE "degraded"

\* a get_answer that puts the agent back into the cache when answer() returned
cache_after_answer_PutsBack(c, now, sid, agent) == InsertOrUpdate(c, now, sid, agent)

\* get_answer after answer() returned or raised (api.py:592-614): get_stats
\* and get_cache_stats read, nothing writes session_cache
cache_after_answer(c, now, sid, agent) == c

\* the cache is left to get_answer's last statements, the rest of its state
\* is not touched
TurnEndCache ==
    /\ session_cache' = cache_after_answer(session_cache, clock, TheSession,
                                           CHOOSE agent \in Agents : TRUE)
    /\ UNCHANGED <<cache_stats, clock, sweeper_wake, sweeper_task, sweep_faults,
                   ops, touch, last, inserted, stopped>>

\* answer() after the runner's final response: add_assistant_message,
\* _save_memory_to_file, local_storage.append_event, return answer.  A save
\* that raises leaves the file as it was (open failed) or cut short; without
\* local storage nothing is written, so nothing can fail.
LlmAnswers(c, answer, save_ok, store_ok) ==
    /\ tpc[c] = "awaiting_llm"
    /\ local_storage = None => save_ok /\ store_ok
    /\ LET r == add_assistant_message(messages, current_round, answer)
           returns == after_dependencies(tloc[c].rag_ok, save_ok, store_ok) = "return_answer"
       IN
       /\ messages' = r.messages
       /\ current_round' = r.current_round
       /\ IF local_storage = None
          THEN UNCHANGED snapshot
          ELSE IF save_ok
               THEN snapshot' = Written(save_memory(r.messages, summaries, r.current_round))
               ELSE snapshot' \in {snapshot, CutShort}
       /\ tlast' = Ended(IF returns THEN "answered" ELSE on_failure(round_count),
                         IF returns THEN answer
                         ELSE IF on_failure(round_count) = "raised" THEN None
                              ELSE "error_message",
                         tloc[c].asked_round, r.current_round,
                         tloc[c].call_no, tloc[c].rag_ok, save_ok, store_ok)
    /\ tpc' = [tpc EXCEPT ![c] = "idle"]
    /\ tloc' = [tloc EXCEPT ![c] = NoTurn]
    /\ UNCHANGED <<summaries, created, round_count, local_storage>>
    /\ TurnMemFrame
    /\ TurnEndCache
    /\ UNCHANGED <<concVars, stepVars, utilVars>>

\* answer() when the runner raised: re-raise in round 1 (get_answer answers
\* 500), the degraded text otherwise
LlmFails(c) ==
    /\ tpc[c] = "awaiting_llm"
    /\ tlast' = Ended(on_failure(round_count),
                      IF on_failure(round_count) = "raised" THEN None ELSE "error_message",
                      tloc[c].asked_round, 0, tloc[c].call_no, tloc[c].rag_ok, TRUE, TRUE)
    /\ tpc' = [tpc EXCEPT ![c] = "idle"]
    /\ tloc' = [tloc EXCEPT ![c] = NoTurn]
    /\ UNCHANGED <<created, round_count, local_storage, snapshot>>
    /\ TurnEndCache
    /\ UNCHANGED <<memVars, concVars, stepVars, utilVars>>

NextTurn ==
    \/ TurnTick
    \/ StartSession
    \/ \E c \in Callers, question \in Questions, rag_ok \in BOOLEAN, llm_ok \in BOOLEAN :
          BeginTurn(c, question, rag_ok, llm_ok)
    \/ \E c \in Callers, answer \in Answers, save_ok \in BOOLEAN, store_ok \in BOOLEAN :
          LlmAnswers(c, answer, save_ok, store_ok)
    \/ \E c \in Callers : LlmFails(c)

NextTurnSerial ==
    \/ TurnTick
    \/ StartSession
    \/ \E c \in Callers, question \in Questions, rag_ok \in BOOLEAN, llm_ok \in BOOLEAN :
          BeginTurnAlone(c, question, rag_ok, llm_ok)
    \/ \E c \in Callers, answer \in Answers, save_ok \in BOOLEAN, store_ok \in BOOLEAN :
          LlmAnswers(c, answer, save_ok, store_ok)
    \/ \E c \in Callers : LlmFails(c)

\* ------------------------------------ the session removed during a turn
\* stop_test (api.py:633-655): remove_from_cache if the session is cached
StopTest ==
    /\ created
    /\ session_cache' = remove_from_cache(session_cache, TheSession)
    /\ stopped' = IF Contains(session_cache, TheSession) THEN stopped + 1 ELSE stopped
    /\ UNCHANGED <<cache_stats, clock, sweeper_wake, sweeper_task, sweep_faults,
                   ops, touch, last, inserted>>
    /\ UNCHANGED <<memVars, concVars, turnVars, stepVars, utilVars>>

\* start_test of another session, one that is not cached (api.py:521-527):
\* its add_to_cache drops the least recently used session when the cache is
\* full
StartOtherSession(sid, agent) ==
    /\ sid # TheSession
    /\ ~Contains(session_cache, sid)
    /\ inserted < MaxStarts
    /\ LET r == add_to_cache(session_cache, cache_stats, clock, sid, agent) IN
       /\ session_cache' = r.cache
       /\ cache_stats' = r.stats
       /\ last' = Did("put", sid, None, Contains(session_cache, sid), r.evicted,
                    Cardinality(Keys(session_cache) \ Keys(r.cache)))
       /\ dropped' = dropped + Cardinality(Keys(session_cache) \ Keys(r.cache))
    /\ inserted' = IF Contains(session_cache, sid) THEN inserted ELSE inserted + 1
    /\ UNCHANGED <<clock, sweeper_wake, sweeper_task, sweep_faults, ops, touch, stopped>>
    /\ UNCHANGED <<memVars, pc, loc, running, gets_started, turnVars, stepVars, utilVars>>

\* one pass of cleanup_expired_sessions_background (api.py:195-205), which
\* has no await between its sleeps
SweepPass ==
    /\ sweeper_task = "sleeping"
    /\ clock >= sweeper_wake
    /\ LET r == BackgroundLoop(session_cache, session_cache, cache_stats, clock) IN
       /\ session_cache' = r.cache
       /\ cache_stats' = r.stats
    /\ sweeper_wake' = clock + CLEANUP_INTERVAL
    /\ dropped' = dropped + (Len(session_cache) - Len(session_cache'))
    /\ UNCHANGED <<clock, sweeper_task, sweep_faults, ops, touch, last, inserted, stopped>>
    /\ UNCHANGED <<memVars, pc, loc, running, gets_started, turnVars, stepVars, utilVars>>

\* the RAG search, the summarizer, the snapshot and the local storage work
NextTurnRemoval ==
    \/ TurnTick
    \/ StartSession
    \/ \E c \in Callers, question \in Questions : BeginTurnAlone(c, question, TRUE, TRUE)
    \/ \E c \in Callers, answer \in Answers : LlmAnswers(c, answer, TRUE, TRUE)
    \/ \E c \in Callers : LlmFails(c)
    \/ StopTest
    \/ \E sid \in SessionIds : StartOtherSession(sid, CHOOSE agent \in Agents : TRUE)
    \/ SweepPass

\* ==================================================== text_chunker.py
\* a text is a sequence of characters: "x" or white space
Chars == {"x", " "}

TextsUpTo(n) == UNION {[1..k -> Chars] : k \in 0..n}

\* not text.strip()
Blank(text) == \A i \in 1..Len(text) : text[i] = " "

\* text[i:j]
Slice(text, i, j) == SubSeq(text, i + 1, Min(j, Len(text)))

\* list(range(0, stop, step)) for step > 0
RangeFrom0(stop, step) == [k \in 1..((stop + step - 1) \div step) |-> (k - 1) * step]

Strategies == {"recursive", "fixed"}

NoConfig == [strategy |-> None, chunk_size |-> 0, chunk_overlap |-> 0]

\* ChunkConfig.__init__ / TextChunker.create_config: the fields are stored as
\* given, nothing is tested and nothing is raised
create_config(strategy, chunk_size, chunk_overlap) ==
    [raised |-> FALSE,
     config |-> [strategy |-> strategy, chunk_size |-> chunk_size,
                 chunk_overlap |-> chunk_overlap]]

\* the outcome of a chunking call: by is "library" for the chunks of
\* RecursiveCharacterTextSplitter, whose content is not modelled
Chunked(raised, by, chunks) == [raised |-> raised, by |-> by, chunks |-> chunks]

\* TextChunker._chunk_fixed: range() raises ValueError for step 0 and is empty
\* for a negative step
chunk_fixed(text, config) ==
    LET step == config.chunk_size - config.chunk_overlap IN
    IF step = 0 THEN Chunked(TRUE, "fixed", <<>>)
    ELSE LET starts == IF step < 0 THEN <<>> ELSE RangeFrom0(Len(text), step)
             all == [k \in 1..Len(starts) |->
                        Slice(text, starts[k], starts[k] + config.chunk_size)]
         IN Chunked(FALSE, "fixed", SelectSeq(all, LAMBDA chunk : ~Blank(chunk)))

\* TextChunker._chunk_recursive: the splitter's constructor raises or the
\* library splits the text
chunk_recursive(text, config, lib_raises) ==
    IF lib_raises THEN Chunked(TRUE, "library", <<>>)
    ELSE Chunked(FALSE, "library", <<>>)

\* TextChunker.chunk_text_sync (chunk_text is the same under async): an
\* exception of the strategy is caught and _chunk_fixed is called, whose own
\* exception goes to the caller
chunk_text_sync(text, config, lib_raises) ==
    IF Blank(text) THEN Chunked(FALSE, "empty", <<>>)
    ELSE LET first == IF config.strategy = "recursive"
                      THEN chunk_recursive(text, config, lib_raises)
                      ELSE chunk_fixed(text, config)
         IN IF first.raised THEN chunk_fixed(text, config) ELSE first

NoChunkCall == [called |-> FALSE, text |-> <<>>, out |-> Chunked(FALSE, "empty", <<>>)]

\* TextChunker.create_config(strategy, chunk_size, chunk_overlap)
CreateConfig(strategy, chunk_size, chunk_overlap) ==
    /\ chunk_config = NoConfig
    /\ ~create_config(strategy, chunk_size, chunk_overlap).raised
    /\ chunk_config' = create_config(strategy, chunk_size, chunk_overlap).config
    /\ UNCHANGED <<chunk_call, memory_context, summary_call, limiter_call>>
    /\ UNCHANGED <<cacheVars, memVars, concVars, turnVars, stepVars>>

\* TextChunker.chunk_text_sync(text, config) with the configuration made
ChunkTextSync(text, lib_raises) ==
    /\ chunk_config # NoConfig
    /\ ~chunk_call.called
    /\ chunk_config.strategy = "fixed" => ~lib_raises
    /\ chunk_call' = [called |-> TRUE, text |-> text,
                      out |-> chunk_text_sync(text, chunk_config, lib_raises)]
    /\ UNCHANGED <<chunk_config, memory_context, summary_call, limiter_call>>
    /\ UNCHANGED <<cacheVars, memVars, concVars, turnVars, stepVars>>

NextChunk ==
    \/ \E strategy \in Strategies, chunk_size \in 1..MaxChunkSize,
          chunk_overlap \in 0..(MaxChunkSize + 1) :
          CreateConfig(strategy, chunk_size, chunk_overlap)
    \/ \E text \in TextsUpTo(MaxTextLen), lib_raises \in BOOLEAN :
          ChunkTextSync(text, lib_raises)

\* ================================================== project_utils.py
\* build_memory_context works on strings; a string is modelled by its number
\* of characters and a summary by the sizes of its fields:
\*   [round_range, range_chars, summary, key_facts]
\* range_chars is len(f"{round_range[0]}-{round_range[1]}")
MAX_SUMMARIES == 5
SUMMARY_CHARS == 200
MAX_FACTS == 3
FACT_CHARS == 100
MAX_CONTEXT_LENGTH == 3000

\* len() of the literals of build_memory_context
TitleLen == 12
NoticeLen == 24
RuleLen == 4
MarkerLen == 19
RoundPrefixLen == 8
RoundSuffixLen == 4
BulletLen == 4

RECURSIVE Digits(_)
Digits(n) == IF n < 10 THEN 1 ELSE 1 + Digits(n \div 10)

\* len(f"{a}-{b}")
RangeChars(round_range) == Digits(round_range[1]) + 1 + Digits(round_range[2])

RECURSIVE SumSeq(_)
SumSeq(seq) == IF seq = <<>> THEN 0 ELSE Head(seq) + SumSeq(Tail(seq))

\* len("\n".join(parts))
JoinedLen(parts) == IF parts = <<>> THEN 0 ELSE SumSeq(parts) + Len(parts) - 1

\* a context of the oldest summaries
recent_summaries_Oldest(all_summaries) == Prefix(all_summaries, MAX_SUMMARIES)

\* summaries[-MAX_SUMMARIES:] if len(summaries) > MAX_SUMMARIES else summaries
recent_summaries(all_summaries) == Suffix(all_summaries, MAX_SUMMARIES)

\* a context of every key fact
facts_to_show_All(key_facts) == key_facts

\* summary.key_facts[:3]
facts_to_show(key_facts) == Prefix(key_facts, MAX_FACTS)

\* what one pass of the loop shows of a summary: summary.summary[:200] and
\* fact[:100] of the facts shown
BlockOf(summary) ==
    [round_range |-> summary.round_range,
     range_chars |-> summary.range_chars,
     summary |-> Min(summary.summary, SUMMARY_CHARS),
     facts |-> [i \in 1..Len(facts_to_show(summary.key_facts)) |->
                   Min(facts_to_show(summary.key_facts)[i], FACT_CHARS)]]

\* the context_parts one pass of the loop appends, as lengths
PartsOf(block) ==
    <<RoundPrefixLen + block.range_chars + RoundSuffixLen + block.summary>>
    \o [i \in 1..Len(block.facts) |-> BulletLen + block.facts[i]]
    \o (IF block.facts # <<>> THEN <<0>> ELSE <<>>)

RECURSIVE PartsOfAll(_)
PartsOfAll(blocks) ==
    IF blocks = <<>> THEN <<>> ELSE PartsOf(Head(blocks)) \o PartsOfAll(Tail(blocks))

\* index in result of the first character of block k
BlockStart(blocks, k) ==
    LET before == <<TitleLen, NoticeLen>> \o PartsOfAll(Prefix(blocks, k - 1))
    IN JoinedLen(before) + 1

BlockChars(block) == JoinedLen(PartsOf(block))

\* how many characters of [from, from + n) lie in result[:limit]
CharsKept(from, n, limit) ==
    IF from >= limit THEN 0 ELSE Min(n, limit - from)

EmptyContext == [length |-> 0, blocks |-> <<>>, marker |-> FALSE, exceeded |-> FALSE]

\* build_memory_context(memory_manager), on the summaries of its long-term
\* memory: every block carries its size (chars) and what result[:3000] left of
\* it (kept)
build_memory_context(all_summaries) ==
    IF all_summaries = <<>> THEN EmptyContext
    ELSE LET shown == recent_summaries(all_summaries)
             blocks == [k \in 1..Len(shown) |-> BlockOf(shown[k])]
             context_parts == <<TitleLen, NoticeLen>> \o PartsOfAll(blocks) \o <<RuleLen>>
             full == JoinedLen(context_parts)
             exceeded == full > MAX_CONTEXT_LENGTH
             limit == IF exceeded THEN MAX_CONTEXT_LENGTH ELSE full
         IN [length |-> IF exceeded THEN MAX_CONTEXT_LENGTH + MarkerLen ELSE full,
             blocks |-> [k \in 1..Len(blocks) |->
                            [round_range |-> blocks[k].round_range,
                             range_chars |-> blocks[k].range_chars,
                             summary |-> blocks[k].summary,
                             facts |-> blocks[k].facts,
                             chars |-> BlockChars(blocks[k]),
                             kept |-> CharsKept(BlockStart(blocks, k),
                                                BlockChars(blocks[k]), limit)]],
             marker |-> exceeded,
             exceeded |-> exceeded]

\* the texts a summary is made of, by size: a summary text and key facts
\* below and above what is shown of them
SummaryLengths == {SUMMARY_CHARS - 50, SUMMARY_CHARS + 50}

FactLists == {<<>>, <<FACT_CHARS + 20, FACT_CHARS, FACT_CHARS + 1, 60>>}

\* agents.py:150 compress_rounds = 5: the rounds one summary of this service
\* covers
RoundsPerSummary == 5

\* round_range of the i-th summary of a memory that compacts k rounds at a time
RangeAt(i, k) == <<(i - 1) * k + 1, i * k>>

\* the rendered width of a round_range read from summary.json, whose values
\* nothing checks: two numbers of 40 digits
WideRangeChars == 81

\* the summaries of a long-term memory, by the sizes of their texts
LongTermMemories ==
    UNION {[1..n -> SummaryLengths \X FactLists] : n \in 0..MaxSummaries}

\* the summaries as compaction made them (wide = FALSE) or as
\* _load_memory_from_file restored them from a file of wide round ranges
SummariesOf(shapes, wide) ==
    [i \in 1..Len(shapes) |->
        [round_range |-> RangeAt(i, RoundsPerSummary),
         range_chars |-> IF wide THEN WideRangeChars
                         ELSE RangeChars(RangeAt(i, RoundsPerSummary)),
         summary |-> shapes[i][1],
         key_facts |-> shapes[i][2]]]

\* agents.py:490-492: memory_context = build_memory_context(memory_manager)
BuildMemoryContext ==
    /\ ~memory_context.built
    /\ memory_context' = [memory_context EXCEPT
                             !.built = TRUE,
                             !.out = build_memory_context(memory_context.summaries)]
    /\ UNCHANGED <<chunk_config, chunk_call, summary_call, limiter_call>>
    /\ UNCHANGED <<cacheVars, memVars, concVars, turnVars, stepVars>>

NextBuild == BuildMemoryContext

\* ============================== memory_manager.py: _generate_summary
\* a string is modelled by what the summarizer looks at: which text it is a
\* prefix of (id), its length, the position of its first digit (0: none) and
\* whether "..." was added to it.  Two strings are equal when all four agree.
Str(id, chars, digit_at) == [id |-> id, chars |-> chars, digit_at |-> digit_at, dots |-> FALSE]

\* s[:n]
Cut(s, n) ==
    IF s.chars <= n THEN s
    ELSE [id |-> s.id, chars |-> n, digit_at |-> IF s.digit_at <= n THEN s.digit_at ELSE 0,
          dots |-> FALSE]

\* s[:n] + ("..." if len(s) > n else "")
CutDots(s, n) == IF s.chars > n THEN [Cut(s, n) EXCEPT !.dots = TRUE] ELSE s

\* any(char.isdigit() for char in sentence)
HasDigit(s) == s.digit_at > 0

\* len(s)
StrLen(s) == s.chars + (IF s.dots THEN 3 ELSE 0)

\* the stripped sentences of content.replace("。", ".").split("."): with a
\* digit or without, short or long, and blank
SentenceKinds ==
    {Str(1, 40, 5), Str(2, 40, 0), Str(3, 200, 10), Str(4, 120, 0), Str(0, 0, 0)}

Replies == UNION {[1..n -> SentenceKinds] : n \in 0..MaxSentences}

QuestionKinds == {Str(11, 50, 0), Str(12, 150, 0)}

\* the content of a reply: its sentences with a "." between them
ReplyContent(sentences) ==
    Str(9, SumSeq([i \in 1..Len(sentences) |-> sentences[i].chars]) + Len(sentences), 0)

UserMsg(round, question) ==
    [role |-> "user", round_number |-> round, content |-> question, sentences |-> <<>>]

AssistantMsg(round, sentences) ==
    [role |-> "assistant", round_number |-> round, content |-> ReplyContent(sentences),
     sentences |-> sentences]

\* the messages of the rounds 1..n: a question each, and the reply unless
\* the turn failed
RECURSIVE RoundsMessages(_, _, _)
RoundsMessages(question, replies, round) ==
    IF round > Len(replies) THEN <<>>
    ELSE <<UserMsg(round, question)>>
         \o (IF replies[round].answered
             THEN <<AssistantMsg(round, replies[round].sentences)>> ELSE <<>>)
         \o RoundsMessages(question, replies, round + 1)

RoundOutcomes ==
    {[answered |-> TRUE, sentences |-> r] : r \in Replies}
    \cup {[answered |-> FALSE, sentences |-> <<>>]}

CompactedLogs ==
    {RoundsMessages(question, replies, 1) :
        question \in QuestionKinds,
        replies \in UNION {[1..n -> RoundOutcomes] : n \in 1..MaxSummaryRounds}}

\* len(conversation_text): "用户: " or "助手: " before each content, "\n\n" between
ConversationChars(msgs) ==
    SumSeq([i \in 1..Len(msgs) |-> 4 + StrLen(msgs[i].content)]) + 2 * (Len(msgs) - 1)

\* current_question = None (an empty question counts as none too)
NoQuestion == Str(0, 0, 0)

\* memory_manager.py:391-400 the question/answer pairs
RECURSIVE QaPairs(_, _)
QaPairs(msgs, current_question) ==
    IF msgs = <<>> THEN <<>>
    ELSE LET msg == Head(msgs) IN
         IF msg.role = "user" THEN QaPairs(Tail(msgs), msg.content)
         ELSE IF current_question.chars > 0
         THEN <<[q |-> CutDots(current_question, 80), a |-> CutDots(msg.content, 120)]>>
              \o QaPairs(Tail(msgs), NoQuestion)
         ELSE QaPairs(Tail(msgs), current_question)

\* the sentences of the assistant messages, in the order the two loops of
\* memory_manager.py:407-421 visit them
RECURSIVE AssistantSentences(_)
AssistantSentences(msgs) ==
    IF msgs = <<>> THEN <<>>
    ELSE (IF Head(msgs).role = "assistant" THEN Head(msgs).sentences ELSE <<>>)
         \o AssistantSentences(Tail(msgs))

\* memory_manager.py:407-421: a sentence is taken when it is not blank and
\* has a digit or is shorter than 100; it is looked up in key_facts in whole
\* and stored cut to 150; both loops stop at 5 facts
RECURSIVE ExtractFacts(_, _)
ExtractFacts(sentences, key_facts) ==
    IF sentences = <<>> \/ Len(key_facts) >= 5 THEN key_facts
    ELSE LET sentence == Head(sentences) IN
         IF /\ sentence.chars > 0
            /\ (HasDigit(sentence) \/ StrLen(sentence) < 100)
            /\ \A i \in 1..Len(key_facts) : key_facts[i] # sentence
         THEN ExtractFacts(Tail(sentences), Append(key_facts, Cut(sentence, 150)))
         ELSE ExtractFacts(Tail(sentences), key_facts)

\* [msg.content[:100] + ("..." if ...) for msg in messages if msg.role == "user"]
UserQuestions(msgs) ==
    LET users == SelectSeq(msgs, LAMBDA m : m.role = "user")
    IN [i \in 1..Len(users) |-> CutDots(users[i].content, 100)]

SummaryRange(msgs) == <<SetMin(RoundsOf(msgs)), SetMax(RoundsOf(msgs))>>

\* memory_manager.py:384-435 the summary made by rule, without a client
rule_summary(msgs) ==
    LET qa_pairs == QaPairs(msgs, NoQuestion)
        extracted == ExtractFacts(AssistantSentences(msgs), <<>>)
    IN [summary |-> [form |-> "qa_pairs", round_range |-> SummaryRange(msgs),
                     pairs |-> Len(qa_pairs), shown |-> Prefix(qa_pairs, 3),
                     chars |-> 0],
        key_facts |-> IF extracted # <<>> THEN extracted
                      ELSE Prefix(UserQuestions(msgs), 3),
        round_range |-> SummaryRange(msgs)]

\* memory_manager.py:447-462 the summary made when the LLM call raised:
\* conversation_text[:200] + "..." and every user question
simple_rule_summary(msgs) ==
    [summary |-> [form |-> "transcript", round_range |-> <<0, 0>>, pairs |-> 0,
                  shown |-> <<>>,
                  chars |-> Min(ConversationChars(msgs), 200) + 3],
     key_facts |-> UserQuestions(msgs),
     round_range |-> SummaryRange(msgs)]

\* what the LLM answers: the stripped content by its length and the pieces
\* between its "|", stripped and not blank
LlmResponses ==
    {[chars |-> 90, facts |-> <<Str(21, 40, 5), Str(22, 47, 0)>>],
     [chars |-> 400, facts |-> <<Str(21, 40, 5), Str(22, 47, 0), Str(23, 200, 3),
                                  Str(24, 110, 0)>>]}

NoResponse == [chars |-> 0, facts |-> <<>>]

\* memory_manager.py:464-517 _call_llm_for_summary and 437-445
llm_summary(msgs, response) ==
    [summary |-> [form |-> "llm", round_range |-> <<0, 0>>, pairs |-> 0, shown |-> <<>>,
                  chars |-> Min(response.chars, 150)],
     key_facts |-> Prefix(response.facts, 3),
     round_range |-> SummaryRange(msgs)]

\* MemoryManager._generate_summary(messages), with what the LLM call did:
\* "none" without a client, "answers" or "raises" with one
generate_summary_texts(msgs, client, llm, response) ==
    IF client = None THEN rule_summary(msgs)
    ELSE IF llm = "answers" THEN llm_summary(msgs, response)
    ELSE simple_rule_summary(msgs)

NoSummaryCall ==
    [made |-> FALSE, messages |-> <<>>, client |-> None, llm |-> "none",
     out |-> [summary |-> [form |-> "none", round_range |-> <<0, 0>>, pairs |-> 0,
                           shown |-> <<>>, chars |-> 0],
              key_facts |-> <<>>, round_range |-> <<0, 0>>]]

SummaryFrame ==
    /\ UNCHANGED <<chunk_config, chunk_call, memory_context, limiter_call>>
    /\ UNCHANGED <<cacheVars, memVars, concVars, turnVars, stepVars>>

\* _generate_summary without a client
GenerateByRule ==
    /\ ~summary_call.made /\ summary_call.client = None
    /\ summary_call' = [summary_call EXCEPT
           !.made = TRUE, !.llm = "none",
           !.out = generate_summary_texts(summary_call.messages, None, "none", NoResponse)]
    /\ SummaryFrame

\* _generate_summary with a client that answers
GenerateByLlm(response) ==
    /\ ~summary_call.made /\ summary_call.client # None
    /\ summary_call' = [summary_call EXCEPT
           !.made = TRUE, !.llm = "answers",
           !.out = generate_summary_texts(summary_call.messages, summary_call.client,
                                          "answers", response)]
    /\ SummaryFrame

\* _generate_summary with a client whose call raises
GenerateLlmRaises ==
    /\ ~summary_call.made /\ summary_call.client # None
    /\ summary_call' = [summary_call EXCEPT
           !.made = TRUE, !.llm = "raises",
           !.out = generate_summary_texts(summary_call.messages, summary_call.client,
                                          "raises", NoResponse)]
    /\ SummaryFrame

NextSummary ==
    \/ GenerateByRule
    \/ \E response \in LlmResponses : GenerateByLlm(response)
    \/ GenerateLlmRaises

\* ================================================= context_limiter.py
\* a message of the list handed to the model: its role and its place in the
\* list as it was given
MessageRoles == {"user", "assistant", "tool"}

MessageLists ==
    {[i \in 1..(Len(rest) + 1) |->
         [at |-> i, role |-> IF i = 1 THEN "system" ELSE rest[i - 1]]] :
       rest \in UNION {[1..n -> MessageRoles] : n \in 0..(MaxMessages - 1)}}

\* a search that goes forward from the ideal cutoff
find_valid_truncation_point_Forward(msgs, max_count) ==
    LET num_messages == Len(msgs) IN
    IF num_messages <= max_count THEN 0
    ELSE LET search_end_index == num_messages - max_count
             found == {i \in search_end_index..(num_messages - 1) :
                          msgs[i + 1].role = "assistant"}
         IN IF found = {} THEN 0 ELSE SetMin(found)

\* AgentContextLimiter._find_valid_truncation_point: the index (from 0) of
\* the last assistant message at or before num_messages - max_count, 0 when
\* there is none
find_valid_truncation_point(msgs, max_count) ==
    LET num_messages == Len(msgs) IN
    IF num_messages <= max_count THEN 0
    ELSE LET search_end_index == num_messages - max_count
             found == {i \in 0..search_end_index : msgs[i + 1].role = "assistant"}
         IN IF found = {} THEN 0 ELSE SetMax(found)

\* AgentContextLimiter._valid_truncate
valid_truncate(msgs, max_messages) ==
    IF Len(msgs) <= max_messages THEN msgs
    ELSE IF Len(msgs) <= 1 THEN msgs
    ELSE LET system_message == msgs[1]
             remaining_messages == Tail(msgs)
             max_count == max_messages - 1
         IN IF max_count <= 0 THEN <<system_message>>
            ELSE LET valid_start_index ==
                         find_valid_truncation_point(remaining_messages, max_count)
                 IN <<system_message>>
                    \o SubSeq(remaining_messages, valid_start_index + 1,
                              Len(remaining_messages))

\* the wrapper of init_context_limiter around _get_completion_inputs
with_context_limits(msgs, max_messages) ==
    IF max_messages # 0 /\ Len(msgs) > max_messages
    THEN valid_truncate(msgs, max_messages)
    ELSE msgs

NoLimiterCall == [called |-> FALSE, by |-> "none", messages |-> <<>>, max_messages |-> 0,
                  out |-> <<>>]

LimiterFrame ==
    /\ UNCHANGED <<chunk_config, chunk_call, memory_context, summary_call>>
    /\ UNCHANGED <<cacheVars, memVars, concVars, turnVars, stepVars>>

\* the patched _get_completion_inputs is called with the limit of the
\* current agent (0: no limit)
GetCompletionInputs(max_messages) ==
    /\ ~limiter_call.called
    /\ limiter_call' = [limiter_call EXCEPT
           !.called = TRUE, !.by = "wrapper", !.max_messages = max_messages,
           !.out = with_context_limits(limiter_call.messages, max_messages)]
    /\ LimiterFrame

\* _valid_truncate(messages, max_messages) called by itself
ValidTruncate(max_messages) ==
    /\ ~limiter_call.called
    /\ limiter_call' = [limiter_call EXCEPT
           !.called = TRUE, !.by = "valid_truncate", !.max_messages = max_messages,
           !.out = valid_truncate(limiter_call.messages, max_messages)]
    /\ LimiterFrame

NextLimiter ==
    \/ \E max_messages \in 0..MaxLimit : GetCompletionInputs(max_messages)
    \/ \E max_messages \in 1..MaxLimit : ValidTruncate(max_messages)

\* ========================================================= specifications
vars == <<cacheVars, memVars, concVars, turnVars, stepVars, utilVars>>

\* the session cache under requests, the clock and the sweeper
NotBuilt == [built |-> FALSE, summaries |-> <<>>, out |-> EmptyContext]

InitCalls == summary_call = NoSummaryCall /\ limiter_call = NoLimiterCall

InitUtil ==
    /\ chunk_config = NoConfig /\ chunk_call = NoChunkCall /\ memory_context = NotBuilt
    /\ InitCalls

Init == InitCache /\ MemFresh(MaxM, MaxK, None) /\ InitTasks /\ AgentFresh(None) /\ InitStep /\ InitUtil

Next == NextCache

Spec == Init /\ [][Next]_vars

\* the service left to the clock and the sweeper: the event loop keeps
\* running the sweeper task, and time passes
SpecLive == Init /\ [][NextLive]_vars /\ WF_vars(LiveTick) /\ WF_vars(LiveSweep)

\* the handlers and the sweeper as tasks of one event loop
SpecConc == Init /\ [][NextConc]_vars

\* the same with the service's shutdown; the event loop runs a task that is
\* ready to go on
SpecShutdown == Init /\ [][NextShutdown]_vars /\ WF_vars(ShutdownStep)

\* one session under answer requests that may overlap
TurnInit ==
    /\ InitCache
    /\ MemFresh(MAX_SHORT_TERM_ROUNDS, COMPRESS_ROUNDS, "client")
    /\ InitTasks
    /\ InitAgent
    /\ InitStep /\ InitUtil

SpecTurn == TurnInit /\ [][NextTurn]_vars

\* one session under answer requests made one after the other
SpecTurnSerial == TurnInit /\ [][NextTurnSerial]_vars

\* the same, while the session is stopped, other sessions are started and
\* the sweeper runs
TurnRemovalInit ==
    /\ InitCache
    /\ MemFresh(MAX_SHORT_TERM_ROUNDS, COMPRESS_ROUNDS, "client")
    /\ InitTasks
    /\ AgentFresh("storage")
    /\ InitStep /\ InitUtil

SpecTurnRemoval == TurnRemovalInit /\ [][NextTurnRemoval]_vars

\* one session's memory manager under its turns
MemInit == InitMem /\ InitCache /\ InitTasks /\ AgentFresh(None) /\ InitStep /\ InitUtil

SpecMem == MemInit /\ [][NextMem]_vars

\* one memory manager under its turns and under calls for the prompt context
SpecContext == MemInit /\ [][NextContext]_vars

\* one memory manager, add_user_message taken statement by statement
SpecStep == MemInit /\ [][NextStep]_vars

\* one ShortTermMemory under add_message calls
ShortInit == InitShort /\ InitCache /\ InitTasks /\ AgentFresh(None) /\ InitStep /\ InitUtil

SpecShort == ShortInit /\ [][NextShort]_vars

\* configurations made and texts chunked with them
SpecChunk == Init /\ [][NextChunk]_vars

BuildInit(wides) ==
    /\ InitCache /\ MemFresh(MaxM, MaxK, None) /\ InitTasks /\ AgentFresh(None) /\ InitStep
    /\ chunk_config = NoConfig /\ chunk_call = NoChunkCall /\ InitCalls
    /\ \E wide \in wides, shapes \in LongTermMemories :
          memory_context = [built |-> FALSE, summaries |-> SummariesOf(shapes, wide),
                            out |-> EmptyContext]

LimiterInit ==
    /\ InitCache /\ MemFresh(MaxM, MaxK, None) /\ InitTasks /\ AgentFresh(None) /\ InitStep
    /\ chunk_config = NoConfig /\ chunk_call = NoChunkCall /\ memory_context = NotBuilt
    /\ summary_call = NoSummaryCall
    /\ \E msgs \in MessageLists : limiter_call = [NoLimiterCall EXCEPT !.messages = msgs]

\* the message lists handed to the model through the context limiter
SpecLimiter == LimiterInit /\ [][NextLimiter]_vars

SummaryInit ==
    /\ InitCache /\ MemFresh(MaxM, MaxK, None) /\ InitTasks /\ AgentFresh(None) /\ InitStep
    /\ chunk_config = NoConfig /\ chunk_call = NoChunkCall /\ memory_context = NotBuilt
    /\ limiter_call = NoLimiterCall
    /\ \E msgs \in CompactedLogs, client \in {None, "client"} :
          summary_call = [NoSummaryCall EXCEPT !.messages = msgs, !.client = client]

\* _generate_summary on the messages of a compaction
SpecSummary == SummaryInit /\ [][NextSummary]_vars

\* the context built from a long-term memory filled by compaction
SpecBuild == BuildInit({FALSE}) /\ [][NextBuild]_vars

\* the context built from a long-term memory restored from summary.json
SpecBuildLoaded == BuildInit(BOOLEAN) /\ [][NextBuild]_vars

\* ------------------------------------------------------------- properties
Expired(e, now) == now - e.last_activity > CACHE_TIMEOUT

\* a cache operation has just been made
Stepped(op) == ops' = ops + 1 /\ last'.op = op

\* C1: after any sequence of get, put, remove and sweep operations the cache
\* holds at most MAX_CACHE_SIZE entries and at most one entry per session ID.
C1_SizeAndUnique ==
    /\ Len(session_cache) <= MAX_CACHE_SIZE
    /\ \A i, j \in 1..Len(session_cache) :
          session_cache[i].sid = session_cache[j].sid => i = j

\* a put into a full cache has just evicted an entry and the cache is full again
C1_Witness ==
    /\ last.op = "put" /\ last.evicted # None
    /\ Len(session_cache) = MAX_CACHE_SIZE

\* C4: a put of a new session ID into a full cache evicts exactly one entry,
\* the one whose last successful get or put is the oldest, expired or not.
C4_LruEviction ==
    [][ (Stepped("put") /\ ~Contains(session_cache, last'.sid)
           /\ Len(session_cache) >= MAX_CACHE_SIZE)
        => LET victims == Keys(session_cache) \ Keys(session_cache') IN
           /\ Cardinality(victims) = 1
           /\ victims = {last'.evicted}
           /\ \A v \in victims : \A s \in Keys(session_cache) : touch[v] <= touch[s]
           /\ Keys(session_cache') = (Keys(session_cache) \ victims) \cup {last'.sid}
           /\ cache_stats'.evictions = cache_stats.evictions + 1 ]_vars

\* A and B were put, A was hit by a get, then C was put: B was evicted, A and C remain
C4_Witness ==
    /\ last.op = "put" /\ last.sid = "C" /\ last.evicted = "B"
    /\ Keys(session_cache) = {"A", "C"}
    /\ touch["A"] > touch["B"] /\ touch["B"] > 0
    /\ cache_stats.hits = 1 /\ ops = 4

\* C5: a get of an expired entry is a miss and removes the entry; a get of an
\* absent session is a miss and inserts nothing, and only a put inserts, so
\* the session stays a miss until it is put again; a get of an entry that is
\* not expired returns its agent and keeps it.
C5_TtlExpiryOnGet ==
    [][ /\ (Stepped("get") /\ Contains(session_cache, last'.sid))
           => IF Expired(Entry(session_cache, last'.sid), clock)
              THEN last'.ret = None /\ ~Contains(session_cache', last'.sid)
              ELSE /\ last'.ret = Entry(session_cache, last'.sid).agent
                   /\ last'.ret # None
                   /\ Contains(session_cache', last'.sid)
        /\ (Stepped("get") /\ ~Contains(session_cache, last'.sid))
           => last'.ret = None /\ ~Contains(session_cache', last'.sid)
        /\ \A s \in SessionIds :
              (~Contains(session_cache, s) /\ Contains(session_cache', s))
              => (last'.op = "put" /\ last'.sid = s) ]_vars

\* a get has just found its entry expired and removed it
C5_Witness ==
    /\ last.op = "get" /\ last.present /\ last.ret = None /\ last.removed = 1
    /\ ~Contains(session_cache, last.sid)

\* C6: a sweep pass (background or manual) at time now leaves exactly the
\* entries that are not expired at now, unchanged and in their order.
C6_SweepRemovesExactlyExpired ==
    [][ (Stepped("sweep") \/ Stepped("cleanup"))
        => /\ session_cache' = SelectSeq(session_cache, LAMBDA e : ~Expired(e, clock))
           /\ \A i \in 1..Len(session_cache') : ~Expired(session_cache'[i], clock') ]_vars

\* a background pass has just removed an expired entry and kept a live one
C6_Witness ==
    /\ last.op = "sweep" /\ last.removed >= 1
    /\ Len(session_cache) >= 1

\* C21: every get_from_cache call adds one to exactly one of hits and misses
\* and nothing else touches them, so hits + misses is the number of get calls
\* made; a get of an absent or of an expired session returns None (404 from
\* the answer and status endpoints), any other get returns the agent; the hit
\* rate reported by get_cache_stats is hits / (hits + misses), to two decimals
\* of a percent, and 0 when no get was made.
C21_LookupAccounting ==
    /\ [](/\ cache_stats.hits + cache_stats.misses = gets_started
          /\ LET s == get_cache_stats(session_cache, cache_stats)
                 total == cache_stats.hits + cache_stats.misses
                 err == s.hit_rate * total - 10000 * cache_stats.hits
             IN /\ s.hits = cache_stats.hits /\ s.misses = cache_stats.misses
                /\ total = 0 => s.hit_rate = 0
                /\ total > 0 => (2 * err <= total /\ -2 * err <= total))
    /\ [][ /\ Stepped("get")
              => LET miss == \/ ~Contains(session_cache, last'.sid)
                             \/ Expired(Entry(session_cache, last'.sid), clock)
                 IN /\ gets_started' = gets_started + 1
                    /\ miss => /\ last'.ret = None
                               /\ lookup_status(last'.ret) = 404
                               /\ cache_stats'.misses = cache_stats.misses + 1
                               /\ cache_stats'.hits = cache_stats.hits
                    /\ ~miss => /\ last'.ret \in Agents
                                /\ lookup_status(last'.ret) = 200
                                /\ cache_stats'.hits = cache_stats.hits + 1
                                /\ cache_stats'.misses = cache_stats.misses
           /\ ~Stepped("get")
              => /\ cache_stats'.hits = cache_stats.hits
                 /\ cache_stats'.misses = cache_stats.misses
                 /\ gets_started' = gets_started ]_vars

\* after a hit and a miss of an absent session, a get has just found its
\* entry expired: one hit in three gets, reported as 33.33%
C21_Witness ==
    /\ last.op = "get" /\ last.present /\ last.ret = None
    /\ cache_stats.hits = 1 /\ cache_stats.misses = 2 /\ gets_started = 3
    /\ get_cache_stats(session_cache, cache_stats).hit_rate = 3333

\* C22: the evictions counter never decreases and equals the number of
\* entries removed so far for capacity in put and for expiry in get, in the
\* background pass and in the manual cleanup; an explicit removal leaves it
\* alone; so the number of puts of a session ID that was not cached equals
\* the size of the cache plus evictions plus the number of explicit removals
\* of a cached session.
C22_EvictionAccounting ==
    /\ [](/\ cache_stats.evictions = dropped
          /\ inserted = Len(session_cache) + cache_stats.evictions + stopped)
    /\ [][ /\ cache_stats'.evictions >= cache_stats.evictions
           /\ Stepped("remove")
              => /\ cache_stats'.evictions = cache_stats.evictions
                 /\ stopped' - stopped = Len(session_cache) - Len(session_cache')
           /\ (Stepped("get") \/ Stepped("sweep") \/ Stepped("cleanup"))
              => cache_stats'.evictions - cache_stats.evictions
                    = Len(session_cache) - Len(session_cache')
           /\ Stepped("put")
              => cache_stats'.evictions - cache_stats.evictions
                    = Cardinality(Keys(session_cache) \ Keys(session_cache')) ]_vars

\* three sessions were put into the cache of two, one was evicted for
\* capacity and one was removed by stop
C22_Witness ==
    /\ inserted = 3 /\ cache_stats.evictions = 1 /\ stopped = 1
    /\ Len(session_cache) = 1
    /\ last.op = "remove" /\ last.present

\* C7: a cached session that gets no further get or put is eventually removed
\* by the background sweeper alone, also when a pass raised an exception.
C7_IdleEventuallyReclaimed ==
    \A s \in SessionIds : \A k \in 1..MaxRequests :
        (Contains(session_cache, s) /\ touch[s] = k)
            ~> ~(Contains(session_cache, s) /\ touch[s] = k)

\* a pass has raised, and a later pass has just removed an idle entry
C7_Witness ==
    /\ sweep_faults >= 1
    /\ last.op = "sweep" /\ last.removed >= 1
    /\ session_cache = <<>>
    /\ cache_stats.hits = 0 /\ cache_stats.misses = 0

\* C10: wherever another task can run, no cache operation is half done:
\* every entry dropped for expiry or capacity is counted in evictions, every
\* get begun is counted as a hit or a miss, an entry refreshed by a hit or a
\* put is at the most-recently-used end (the order follows last_activity),
\* and the size bound holds.
C10_OperationsIndivisible ==
    running = None
    => /\ \A t \in Tasks : pc[t] \in AwaitPoints
       /\ cache_stats.evictions = dropped
       /\ cache_stats.hits + cache_stats.misses = gets_started
       /\ \A i, j \in 1..Len(session_cache) :
             i < j => session_cache[i].last_activity <= session_cache[j].last_activity
       /\ Len(session_cache) <= MAX_CACHE_SIZE
       /\ \A i, j \in 1..Len(session_cache) :
             session_cache[i].sid = session_cache[j].sid => i = j

\* while a handler awaits the answer of its agent, after a hit, the sweeper
\* has run a whole pass and dropped that very session
C10_Witness ==
    /\ running = None
    /\ pc["sweeper"] = "sleeping"
    /\ cache_stats.hits >= 1
    /\ dropped >= 1
    /\ \E t \in Handlers : /\ pc[t] = "await_answer"
                          /\ ~Contains(session_cache, loc[t].sid)

\* C27: shutdown_event cancels the sweeper task and returns only when it has
\* ended; once the cancellation is requested no pass starts; the task ends
\* from its sleep only, and a pass in progress goes on to its end; when
\* shutdown_event has returned the cache is empty; a shutdown that has begun
\* ends.
C27_SweeperShutdown ==
    /\ [](pc["shutdown"] \in {"sd_clear", "stopped"}
             => pc["sweeper"] = "cancelled" /\ sweeper_task = "cancelled")
    /\ [](pc["shutdown"] = "stopped" => session_cache = <<>>)
    /\ [][ /\ pc["shutdown"] # "idle"
              => ~(pc["sweeper"] \notin PassLabels /\ pc'["sweeper"] \in PassLabels)
           /\ (pc["sweeper"] # "cancelled" /\ pc'["sweeper"] = "cancelled")
              => pc["sweeper"] = "sleeping"
           /\ pc["sweeper"] \in PassLabels
              => pc'["sweeper"] \in PassLabels \cup {"sleeping"}
           /\ pc["sweeper"] = "cancelled" => pc'["sweeper"] = "cancelled" ]_vars
    /\ (pc["shutdown"] # "idle")
          ~> (pc["shutdown"] = "stopped" /\ pc["sweeper"] = "cancelled")

\* the sweeper has removed an expired session in a pass, another session was
\* cached, then the service was shut down: the task is cancelled and the
\* cache cleared
C27_Witness ==
    /\ pc["shutdown"] = "stopped" /\ pc["sweeper"] = "cancelled"
    /\ dropped >= 1 /\ inserted >= 2
    /\ session_cache = <<>> /\ Len(session_cache) + cache_stats.evictions < inserted

\* the entries of a cache other than the session's, in their order
Others(c, sid) == SelectSeq(c, LAMBDA e : e.sid # sid)

\* C18: a get of an entry that is present and not expired returns its agent,
\* sets its last_activity to the current time and moves it to the most-
\* recently-used end; its created_at and agent, every other entry and the
\* order of the others, and the evictions counter stay as they were.
C18_GetHitFrame ==
    [][ (/\ Stepped("get")
         /\ Contains(session_cache, last'.sid)
         /\ ~Expired(Entry(session_cache, last'.sid), clock))
        => LET e == Entry(session_cache, last'.sid)
               n == Len(session_cache)
           IN /\ last'.ret = e.agent
              /\ Len(session_cache') = n
              /\ session_cache'[n] = [e EXCEPT !.last_activity = clock]
              /\ SubSeq(session_cache', 1, n - 1) = Others(session_cache, last'.sid)
              /\ cache_stats'.evictions = cache_stats.evictions
              /\ cache_stats'.hits = cache_stats.hits + 1
              /\ cache_stats'.misses = cache_stats.misses ]_vars

\* the older of two entries has just been hit, one tick after it was made:
\* it is now behind the younger one and its last_activity is refreshed
C18_Witness ==
    /\ last.op = "get" /\ last.ret # None
    /\ Len(session_cache) = 2
    /\ session_cache[2].sid = last.sid
    /\ session_cache[2].created_at < session_cache[1].created_at
    /\ session_cache[2].last_activity > session_cache[2].created_at

C20_RemoveIdempotent ==
    [][ Stepped("remove")
        => /\ ~Contains(session_cache', last'.sid)
           /\ session_cache' = Others(session_cache, last'.sid)
           /\ ~Contains(session_cache, last'.sid) => session_cache' = session_cache
           /\ cache_stats' = cache_stats ]_vars

\* A was put and removed, and has just been removed a second time, while
\* another session stays cached
C20_Witness ==
    /\ last.op = "remove" /\ last.sid = "A" /\ ~last.present /\ last.removed = 0
    /\ touch["A"] > 0
    /\ cache_stats.evictions = 0 /\ cache_stats.misses = 0
    /\ Keys(session_cache) = {"B"}

\* ------------------------------------------------------ turn properties
\* C11: at most one turn of the session is in progress at a time, so that
\* every assistant message is stored with the round_number of the question
\* it answers.  The code has no per-session lock: this is violated.
C11_AsClaimed ==
    /\ Cardinality({c \in Callers : tpc[c] = "awaiting_llm"}) <= 1
    /\ tlast.outcome = "answered" => tlast.stored_round = tlast.asked_round

\* C12: a turn whose LLM call fails raises only when it is the first answer
\* call of the session and returns the degraded text in every later turn;
\* either way the session's cache entry is left as it was.
C12_FailurePropagation ==
    [][\A c \in Callers :
          (tpc[c] = "awaiting_llm" /\ tpc'[c] = "idle" /\ tlast'.outcome # "answered")
          => /\ tlast'.outcome = IF tloc[c].call_no = 1 THEN "raised" ELSE "degraded"
             /\ tlast'.outcome = "degraded" => tlast'.ret = "error_message"
             /\ session_cache' = session_cache]_vars

\* the third turn is answered after the second one failed: round 2 has its
\* question and no answer, and the session is still cached
C12_Witness ==
    /\ tlast.outcome = "answered" /\ tlast.call_no = 3
    /\ \E i \in 1..Len(messages) : messages[i].round_number = 2 /\ messages[i].role = "user"
    /\ \A i \in 1..Len(messages) : messages[i].round_number = 2 => messages[i].role = "user"
    /\ Contains(session_cache, TheSession)

\* C13: when the summarizer raises during a compaction, add_user_message
\* still returns; no memory is changed before the summarizer has returned
\* or raised; exactly one summary, with round_range = (min, max) of the
\* compacted rounds, has been appended and those rounds are gone from the
\* short-term memory.  The whole call gives what add_user_message gives.
C13_SummarizerFailureContained ==
    /\ cpc \in {"get_oldest", "summarizing"}
       => messages = cloc.entry_messages /\ summaries = cloc.entry_summaries
    /\ cloc.llm_raised => cpc \in {"add_summary", "remove_rounds", "append", "returned", "idle"}
    /\ (cloc.llm_raised /\ cpc \in {"append", "returned", "idle"})
       => /\ cloc.compacted
          /\ Len(summaries) = Len(cloc.entry_summaries) + 1
          /\ SubSeq(summaries, 1, Len(cloc.entry_summaries)) = cloc.entry_summaries
          /\ summaries[Len(summaries)].round_range =
                 <<SetMin(RoundsOf(cloc.oldest_messages)), SetMax(RoundsOf(cloc.oldest_messages))>>
          /\ RoundsOf(cloc.oldest_messages) \cap RoundsOf(messages) = {}
    /\ (cloc.llm_raised /\ cpc = "returned")
       => LET r == add_user_message(cloc.entry_messages, cloc.entry_summaries,
                                    current_round - 1, max_rounds, compress_rounds,
                                    llm_client, FALSE, cloc.content)
          IN messages = r.messages /\ summaries = r.summaries
                /\ current_round = r.current_round

\* add_user_message has returned after a compaction whose summarizer raised:
\* two rounds were compacted and the new question is the last message
C13_Witness ==
    /\ cpc = "returned" /\ cloc.llm_raised /\ cloc.compacted
    /\ summaries[Len(summaries)].via = "llm_failed_rule"
    /\ summaries[Len(summaries)].round_range[1] < summaries[Len(summaries)].round_range[2]
    /\ messages[Len(messages)].role = "user"
    /\ messages[Len(messages)].round_number = current_round

\* C14: get_context_for_prompt never raises when the content store is
\* unavailable (no RAG service, or a search that fails): it returns the long-
\* term summaries and the whole short-term transcript with an empty retrieval
\* block.  A failing search is not caught: this is violated.
C14_AsClaimed ==
    (ctx.called /\ ctx.rag \in {"absent", "raises"})
    => /\ ~ctx.raised
       /\ Len(ctx.transcript) = Len(messages)
       /\ \A i \in 1..Len(messages) : ctx.transcript[i].content = messages[i].content
       /\ Len(ctx.summary_block) = Len(summaries)
       /\ ctx.materials = <<>>

\* C15: a turn whose LLM call succeeds returns the LLM's answer whatever its
\* dependencies do (the content store search, the save of the snapshot and
\* the local storage may each raise), and the short-term memory then holds
\* the question and the answer of that round.
C15_DegradedDependencyNeverAborts ==
    [][\A c \in Callers :
          (tpc[c] = "awaiting_llm" /\ tpc'[c] = "idle" /\ messages' # messages)
          => /\ tlast'.outcome = "answered"
             /\ tlast'.ret \in Answers
             /\ \E i, j \in 1..Len(messages') :
                   /\ i < j
                   /\ messages'[i].role = "user"
                   /\ messages'[i].content = tloc[c].question
                   /\ messages'[i].round_number = tloc[c].asked_round
                   /\ messages'[j].role = "assistant"
                   /\ messages'[j].content = tlast'.ret
                   /\ messages'[j].round_number = tloc[c].asked_round]_vars

\* a second turn has returned its answer although the search, the save and
\* the local storage all raised; the file was cut short by the failed save
C15_Witness ==
    /\ tlast.outcome = "answered" /\ tlast.call_no = 2
    /\ ~tlast.rag_ok /\ ~tlast.save_ok /\ ~tlast.store_ok
    /\ snapshot = CutShort
    /\ messages[Len(messages)].role = "assistant"
    /\ messages[Len(messages)].round_number = 2

C17_AsClaimed ==
    (/\ tlast.outcome \in {"answered", "degraded"}
     /\ local_storage # None /\ tlast.save_ok
     /\ \A c \in Callers : tpc[c] = "idle")
    => snapshot = Written(save_memory(messages, summaries, current_round))

\* C26: once the answer of a turn has been recorded and get_answer has
\* returned it, the session's last_activity is not older than the recording
\* of that answer.  get_answer touches the cache only before the turn
\* (get_from_cache) and never after the await: this is violated as soon as
\* time passes during the turn.
C26_AsClaimed ==
    (/\ tlast.outcome = "answered"
     /\ \A c \in Callers : tpc[c] = "idle"
     /\ Contains(session_cache, TheSession)
     /\ messages # <<>>
     /\ messages[Len(messages)].role = "assistant")
    => Entry(session_cache, TheSession).last_activity
          >= messages[Len(messages)].timestamp

\* ---------------------------------------------------- memory properties
\* the rounds a summary covers
Covered(sm) == sm.round_range[1]..sm.round_range[2]

UserCount(msgs) == Cardinality({i \in 1..Len(msgs) : msgs[i].role = "user"})

\* C2: the rounds covered by the summaries together with the rounds of the
\* short-term messages are exactly 1..current_round, and no round is covered
\* by two summaries or by a summary and a short-term message.
C2_CompressionCoverage ==
    /\ UNION {Covered(summaries[i]) : i \in 1..Len(summaries)} \cup RoundsOf(messages)
          = 1..current_round
    /\ \A i, j \in 1..Len(summaries) :
          i # j => Covered(summaries[i]) \cap Covered(summaries[j]) = {}
    /\ \A i \in 1..Len(summaries) : Covered(summaries[i]) \cap RoundsOf(messages) = {}

\* two compactions of more than one round each have happened and rounds remain
C2_Witness ==
    /\ Len(summaries) >= 2
    /\ \A i \in 1..Len(summaries) : Cardinality(Covered(summaries[i])) >= 2
    /\ messages # <<>>

\* C25: in a fresh session driven one turn at a time, the round ranges of the
\* summaries are well formed, each starts after the end of the one inserted
\* before it (so they are pairwise disjoint), and every summarized round is
\* smaller than every round still in short-term memory.
C25_SummariesInRoundOrder ==
    /\ \A i \in 1..Len(summaries) :
          summaries[i].round_range[1] <= summaries[i].round_range[2]
    /\ \A i, j \in 1..Len(summaries) :
          i < j => summaries[i].round_range[2] < summaries[j].round_range[1]
    /\ \A i \in 1..Len(summaries) : \A r \in RoundsOf(messages) :
          summaries[i].round_range[2] < r

\* three compactions have happened and more than one round is left in
\* short-term memory
C25_Witness ==
    /\ Len(summaries) = 3
    /\ Cardinality(RoundsOf(messages)) >= 2

\* C3: for every M >= 1 and compress_rounds >= 1, short-term memory holds at
\* most M rounds after every add_user_message and add_assistant_message; a
\* user message that arrives at a full memory is appended after a compaction
\* of older rounds.
C3_AtMostMRounds ==
    /\ Cardinality(RoundsOf(messages)) <= max_rounds
    /\ (mlast.op = "user" /\ mlast.was_full)
       => /\ summaries # <<>>
          /\ \A r \in RoundsOf(messages) :
                summaries[Len(summaries)].round_range[2] < r

\* a user message arrived at a full memory; after it the memory holds M rounds again
C3_Witness ==
    /\ mlast.op = "user" /\ mlast.was_full
    /\ Cardinality(RoundsOf(messages)) = max_rounds
    /\ compress_rounds = 1 /\ max_rounds >= 2

\* the user messages of a log
UserMessages(msgs) == {i \in 1..Len(msgs) : msgs[i].role = "user"}

\* C23: after any sequence of add_message calls the number of distinct
\* round_numbers among the stored user messages is the number of calls made
\* with role "user", and a call with role "assistant" leaves current_round
\* as it was.
C23_RoundAccounting ==
    /\ [](Cardinality({messages[i].round_number : i \in UserMessages(messages)})
            = user_calls)
    /\ [][ (mlast'.op = "assistant" /\ Len(messages') = Len(messages) + 1)
           => /\ current_round' = current_round
              /\ messages'[Len(messages')].round_number = current_round ]_vars

\* two user messages in a row, then an assistant message: two rounds
C23_Witness ==
    /\ Len(messages) = 3 /\ user_calls = 2
    /\ messages[1].role = "user" /\ messages[2].role = "user"
    /\ messages[3].role = "assistant" /\ mlast.op = "assistant"
    /\ current_round = 2

\* the log is k whole rounds: question and answer of rounds 1 to k
WholeRounds(msgs, k) ==
    /\ Len(msgs) = 2 * k
    /\ \A r \in 1..k : /\ msgs[2 * r - 1].role = "user"
                       /\ msgs[2 * r - 1].round_number = r
                       /\ msgs[2 * r].role = "assistant"
                       /\ msgs[2 * r].round_number = r

\* C24: for every max_rounds = M >= 1, from an empty ShortTermMemory, is_full
\* is false after exactly M - 1 whole rounds and true after the M-th.
C24_FullnessBoundary ==
    \A k \in 0..MaxM :
        WholeRounds(messages, k)
        => /\ k = max_rounds - 1 => ~is_full(messages, max_rounds)
           /\ k = max_rounds => is_full(messages, max_rounds)

\* the M-th round has just been completed, for the largest M
C24_Witness ==
    /\ max_rounds = MaxM
    /\ WholeRounds(messages, max_rounds)
    /\ is_full(messages, max_rounds)
    /\ mlast.op = "assistant"

\* C8: add_user_message compacts iff the memory is full on entry; the
\* compaction takes only messages that were there on entry, the new user
\* message is appended after it and is not compacted; add_assistant_message
\* never compacts.
C8_CompressionTrigger ==
    [][ /\ mlast'.op = "user" /\ current_round' # current_round
           => LET full == UserCount(messages) >= max_rounds
                  new == messages'[Len(messages')]
                  kept == SubSeq(messages', 1, Len(messages') - 1)
              IN /\ (Len(summaries') = Len(summaries) + 1) <=> full
                 /\ (summaries' = summaries) <=> ~full
                 /\ ~full => kept = messages
                 /\ new.role = "user" /\ new.round_number = current_round'
                 /\ RoundsOf(kept) \subseteq RoundsOf(messages)
                 /\ full => /\ RoundsOf(kept) # RoundsOf(messages)
                            /\ Covered(summaries'[Len(summaries')])
                                  = RoundsOf(messages) \ RoundsOf(kept)
                 /\ \A i \in 1..Len(summaries') :
                       current_round' \notin Covered(summaries'[i])
        /\ mlast'.op = "assistant" /\ messages' # messages
           => /\ summaries' = summaries
              /\ SubSeq(messages', 1, Len(messages') - 1) = messages ]_vars

\* a user message has just been appended after a compaction
C8_Witness ==
    /\ mlast.op = "user" /\ mlast.was_full
    /\ Len(summaries) = 1
    /\ messages[Len(messages)].round_number = current_round
    /\ Len(messages) >= 2

\* all earlier rounds are complete and round r's user message has just been recorded
JustAsked(r) ==
    /\ mlast.op = "user"
    /\ current_round = r
    /\ completed = 1..(r - 1)

Msg(role, content, round) ==
    [role |-> role, content |-> content, timestamp |-> clock, round_number |-> round]

\* C9 as claimed: with max_short_term_rounds = 3 and compress_rounds = 2,
\* recording round 3's user message compacts rounds 1 and 2 into one summary
\* (1, 2) and leaves only round 3 in short-term memory.
C9_AsClaimed ==
    (max_rounds = 3 /\ compress_rounds = 2 /\ JustAsked(3))
    => /\ RoundsOf(messages) = {3}
       /\ Len(summaries) = 1
       /\ summaries[1].round_range = <<1, 2>>

\* C9 amended: with max_short_term_rounds = 3 and compress_rounds = 2,
\* recording round 3's user message compacts nothing; recording round 4's
\* user message compacts rounds 1 and 2 into one summary (1, 2), after which
\* short-term memory holds round 3's two messages and round 4's user message.
C9_CompactsAtRoundFour ==
    (max_rounds = 3 /\ compress_rounds = 2)
    => /\ JustAsked(3)
          => /\ summaries = <<>>
             /\ RoundsOf(messages) = {1, 2, 3}
             /\ Len(messages) = 5
       /\ JustAsked(4)
          => /\ Len(summaries) = 1
             /\ summaries[1].round_range = <<1, 2>>
             /\ messages = <<Msg("user", "q", 3), Msg("assistant", "a", 3),
                             Msg("user", "q", 4)>>

\* round 4's user message has just been recorded after three complete rounds
C9_Witness ==
    /\ max_rounds = 3 /\ compress_rounds = 2 /\ JustAsked(4)
    /\ Len(summaries) = 1

\* C28: a chunk configuration whose overlap is not smaller than its chunk
\* size is never made (making it raises), so no chunking call runs with one,
\* and a chunking call on a text that is not blank neither raises out of the
\* fixed-size chunker nor returns an empty list.
C28_AsClaimed ==
    /\ chunk_config # NoConfig => chunk_config.chunk_overlap < chunk_config.chunk_size
    /\ (chunk_call.called /\ ~Blank(chunk_call.text) /\ chunk_call.out.by = "fixed")
          => ~chunk_call.out.raised /\ chunk_call.out.chunks # <<>>

\* the two ways the chunker ends with such a configuration
C28_SilentlyEmpty ==
    /\ chunk_call.called /\ ~Blank(chunk_call.text)
    /\ chunk_config.chunk_overlap > chunk_config.chunk_size
    /\ ~chunk_call.out.raised /\ chunk_call.out.chunks = <<>>

C28_RaisesWhenChunking ==
    /\ chunk_call.called /\ ~Blank(chunk_call.text)
    /\ chunk_config.chunk_overlap = chunk_config.chunk_size
    /\ chunk_call.out.raised

\* C29: the long-term context built holds the last MAX_SUMMARIES = 5
\* summaries of long-term memory and no other, in the order they were added,
\* however many the memory holds; each is rendered in whole with its round
\* range, its summary (the first 200 characters of it) and the first three at
\* most of its key facts (the first 100 characters of each).
C29_LastFiveSummaries ==
    memory_context.built =>
        LET all_summaries == memory_context.summaries
            out == memory_context.out
            n == Len(all_summaries)
            m == IF n > 5 THEN 5 ELSE n
        IN /\ Len(out.blocks) = m
           /\ \A k \in 1..m :
                 LET summary == all_summaries[n - m + k]
                     block == out.blocks[k]
                     shown == IF Len(summary.key_facts) > 3 THEN 3
                              ELSE Len(summary.key_facts)
                 IN /\ block.round_range = summary.round_range
                    /\ block.range_chars = summary.range_chars
                    /\ block.summary = Min(summary.summary, 200)
                    /\ Len(block.facts) = shown
                    /\ \A j \in 1..shown :
                          block.facts[j] = Min(summary.key_facts[j], 100)
                    /\ block.kept = block.chars
           /\ ~out.marker

\* a context built from more than five summaries, one of those shown with
\* more than three key facts and a summary above 200 characters
C29_Witness ==
    /\ memory_context.built
    /\ Len(memory_context.summaries) > MAX_SUMMARIES
    /\ Len(memory_context.out.blocks) = MAX_SUMMARIES
    /\ \E k \in 1..MAX_SUMMARIES :
          LET summary == memory_context.summaries[Len(memory_context.summaries) - MAX_SUMMARIES + k]
          IN Len(summary.key_facts) > MAX_FACTS /\ summary.summary > SUMMARY_CHARS

C30_NewestCut ==
    /\ memory_context.built /\ memory_context.out.exceeded
    /\ LET out == memory_context.out
           m == Len(out.blocks)
       IN /\ out.blocks[1].kept = out.blocks[1].chars
          /\ out.blocks[m].kept < out.blocks[m].chars

\* the half of the claim that holds: below the ceiling nothing is cut and no
\* marker is added, above it the marker is added
C30_BelowCeilingUntouched ==
    memory_context.built =>
        LET out == memory_context.out
        IN /\ out.marker = out.exceeded
           /\ ~out.exceeded =>
                 \A k \in 1..Len(out.blocks) : out.blocks[k].kept = out.blocks[k].chars

\* the n smallest round numbers of a log
SmallestRounds(msgs, n) ==
    {x \in RoundsOf(msgs) : Cardinality({y \in RoundsOf(msgs) : y < x}) < n}

\* C31: one compaction step on a short-term memory of r >= 1 rounds removes
\* exactly the messages of the min(compress_rounds, r) smallest round numbers,
\* appends exactly one summary whose round_range is (min, max) of the removed
\* rounds, leaves the surviving messages as they were and in their order, and
\* leaves current_round as it was; on an empty memory it changes nothing.
C31_CompactionStep ==
    /\ [](/\ (cpc = "append" /\ cloc.compacted) =>
                LET entry == cloc.entry_messages
                    r == Cardinality(RoundsOf(entry))
                    n == IF compress_rounds < r THEN compress_rounds ELSE r
                    removed == SmallestRounds(entry, n)
                IN /\ r >= 1
                   /\ Cardinality(removed) = n
                   /\ messages = SelectSeq(entry, LAMBDA m : m.round_number \notin removed)
                   /\ Len(summaries) = Len(cloc.entry_summaries) + 1
                   /\ SubSeq(summaries, 1, Len(cloc.entry_summaries)) = cloc.entry_summaries
                   /\ summaries[Len(summaries)].round_range =
                          <<SetMin(removed), SetMax(removed)>>
          /\ \A K \in 1..MaxK :
                /\ get_oldest_rounds(<<>>, K) = <<>>
                /\ compress_memory(<<>>, summaries, K, llm_client, TRUE)
                      = [messages |-> <<>>, summaries |-> summaries])
    /\ [][(cpc \in {"get_oldest", "summarizing", "add_summary", "remove_rounds"})
              => (current_round' = current_round)]_vars

\* a compaction of two rounds out of three has just ended, and a message of
\* the third round survives
C31_Witness ==
    /\ cpc = "append" /\ cloc.compacted
    /\ Cardinality(RoundsOf(cloc.entry_messages)) = 3
    /\ compress_rounds = 2
    /\ Cardinality(RoundsOf(messages)) = 1
    /\ Len(messages) >= 1

\* C32: in a session driven one turn at a time, the round numbers of the
\* short-term messages never decrease along the log (so each value is one
\* contiguous block), none is above current_round, current_round never
\* decreases, and every new user message gets a round number above every
\* round number of the log and of the summaries before it.
C32_RoundNumbersMonotone ==
    /\ [](/\ \A i, j \in 1..Len(messages) :
                i < j => messages[i].round_number <= messages[j].round_number
          /\ \A i \in 1..Len(messages) : messages[i].round_number <= current_round
          /\ \A i \in 1..Len(summaries) : summaries[i].round_range[2] <= current_round)
    /\ [][current_round' >= current_round]_vars
    /\ [][(turn = "idle" /\ turn' = "awaiting_llm")
              => (/\ messages' # <<>>
                  /\ messages'[Len(messages')].role = "user"
                  /\ messages'[Len(messages')].round_number = current_round'
                  /\ current_round' > current_round
                  /\ \A i \in 1..Len(messages) :
                        messages[i].round_number < current_round'
                  /\ \A i \in 1..Len(summaries) :
                        summaries[i].round_range[2] < current_round')]_vars

\* after a compaction and a failed turn the log holds a round of one message
\* followed by a later round
C32_Witness ==
    /\ summaries # <<>>
    /\ Len(messages) >= 3
    /\ \E i \in 1..(Len(messages) - 1) :
          /\ messages[i].role = "user" /\ messages[i + 1].role = "user"
          /\ messages[i].round_number < messages[i + 1].round_number

\* C33: when the LLM summarizer raises, the summary made has the summary
\* text, the key facts and the round range of the summary the rule-based path
\* (no client configured) makes of the same messages.
C33_AsClaimed ==
    (summary_call.made /\ summary_call.llm = "raises")
    => LET by_rule == rule_summary(summary_call.messages)
       IN /\ summary_call.out.round_range = by_rule.round_range
          /\ summary_call.out.summary = by_rule.summary
          /\ summary_call.out.key_facts = by_rule.key_facts

\* the part that holds: the round range is the same on every path
C33_SameRoundRange ==
    summary_call.made
    => summary_call.out.round_range = rule_summary(summary_call.messages).round_range

\* the LLM call raised and the key facts are the user questions although the
\* assistant replies hold sentences with digits
C33_FallbackDiffers ==
    /\ summary_call.made /\ summary_call.llm = "raises"
    /\ summary_call.out.key_facts = UserQuestions(summary_call.messages)
    /\ rule_summary(summary_call.messages).key_facts
          = ExtractFacts(AssistantSentences(summary_call.messages), <<>>)
    /\ rule_summary(summary_call.messages).key_facts # <<>>

\* the sentences of the assistant replies that hold a digit
DigitSentences(msgs) ==
    {sentence \in Elems(AssistantSentences(msgs)) : sentence.chars > 0 /\ HasDigit(sentence)}

\* C34: the key facts made by rule are at most 5, of at most 150 characters
\* each, no two equal, and each is a sentence of an assistant reply that holds
\* a digit; only when there is no such sentence they are at most 3 truncated
\* user questions.  On the LLM path there are at most 3 key facts and the
\* summary text has at most 150 characters.
C34_AsClaimed ==
    summary_call.made =>
        LET key_facts == summary_call.out.key_facts
            msgs == summary_call.messages
        IN /\ summary_call.llm = "none" =>
                 IF DigitSentences(msgs) # {}
                 THEN /\ Len(key_facts) <= 5
                      /\ \A i \in 1..Len(key_facts) : StrLen(key_facts[i]) <= 150
                      /\ \A i, j \in 1..Len(key_facts) : i # j => key_facts[i] # key_facts[j]
                      /\ \A i \in 1..Len(key_facts) :
                            \E sentence \in DigitSentences(msgs) :
                               key_facts[i] = Cut(sentence, 150)
                 ELSE /\ Len(key_facts) <= 3
                      /\ key_facts = Prefix(UserQuestions(msgs), 3)
           /\ summary_call.llm = "answers" =>
                 /\ Len(key_facts) <= 3
                 /\ summary_call.out.summary.chars <= 150

\* a key fact made by rule that is a sentence without a digit
C34_DigitlessFact ==
    /\ summary_call.made /\ summary_call.llm = "none"
    /\ \E i \in 1..Len(summary_call.out.key_facts) :
          /\ ~HasDigit(summary_call.out.key_facts[i])
          /\ summary_call.out.key_facts[i] \in Elems(AssistantSentences(summary_call.messages))

\* two equal key facts made by rule
C34_DuplicateFacts ==
    /\ summary_call.made /\ summary_call.llm = "none"
    /\ \E i, j \in 1..Len(summary_call.out.key_facts) :
          i # j /\ summary_call.out.key_facts[i] = summary_call.out.key_facts[j]

\* the bounds of the claim, which hold: at most 5 key facts of at most 150
\* characters by rule, at most 3 and a summary of at most 150 on the LLM path
C34_Bounds ==
    summary_call.made =>
        LET key_facts == summary_call.out.key_facts IN
        /\ summary_call.llm = "none" =>
              /\ Len(key_facts) <= 5
              /\ \A i \in 1..Len(key_facts) : StrLen(key_facts[i]) <= 150
        /\ summary_call.llm = "answers" =>
              /\ Len(key_facts) <= 3
              /\ summary_call.out.summary.chars <= 150

\* the rule stops at five key facts although more sentences qualify
C34_FiveFacts ==
    /\ summary_call.made /\ summary_call.llm = "none"
    /\ Len(summary_call.out.key_facts) = 5

\* C35: when a limit max_messages > 0 is set and the list is longer than it,
\* the list handed to the model holds the first message and the last messages
\* only, and at most max_messages messages.
C35_AsClaimed ==
    (/\ limiter_call.called /\ limiter_call.by = "wrapper"
     /\ limiter_call.max_messages > 0
     /\ Len(limiter_call.messages) > limiter_call.max_messages)
    => /\ Len(limiter_call.out) <= limiter_call.max_messages
       /\ limiter_call.out[1] = limiter_call.messages[1]
       /\ Tail(limiter_call.out)
             = Suffix(Tail(limiter_call.messages), Len(limiter_call.out) - 1)

\* a list longer than the limit is handed over in whole
C35_NothingCut ==
    /\ limiter_call.called /\ limiter_call.by = "wrapper"
    /\ limiter_call.max_messages > 0
    /\ Len(limiter_call.messages) > limiter_call.max_messages
    /\ limiter_call.out = limiter_call.messages

\* a list is cut and still longer than the limit
C35_CutAboveLimit ==
    /\ limiter_call.called /\ limiter_call.by = "wrapper"
    /\ limiter_call.max_messages > 0
    /\ Len(limiter_call.out) < Len(limiter_call.messages)
    /\ Len(limiter_call.out) > limiter_call.max_messages

\* the part of the claim that holds: the first message and a suffix of the
\* others are kept
C35_FirstAndLast ==
    limiter_call.called
    => /\ limiter_call.out # <<>> => limiter_call.out[1] = limiter_call.messages[1]
       /\ Tail(limiter_call.out)
             = Suffix(Tail(limiter_call.messages), Len(limiter_call.out) - 1)

\* the shape of a result of _valid_truncate as the claim gives it
TruncationShape(msgs, max_messages, out) ==
    LET remaining == Tail(msgs)
        cutoff == Len(remaining) - (max_messages - 1)
        safe == {i \in 0..cutoff : remaining[i + 1].role = "assistant"}
    IN /\ out # <<>> /\ out[1] = msgs[1]
       /\ Tail(out) = Suffix(remaining, Len(out) - 1)
       /\ Len(out) < Len(msgs) =>
             /\ Len(out) >= 2
             /\ out[2].role = "assistant"
             /\ safe # {}
             /\ out[2] = remaining[SetMax(safe) + 1]
       /\ (Len(msgs) > max_messages /\ safe = {}) => out = msgs
       /\ Len(msgs) <= max_messages => out = msgs

\* C36 as claimed: every result of _valid_truncate is the first message and
\* a suffix of the others; when a message was dropped the first message kept
\* after the first is the assistant message nearest at or before the ideal
\* cutoff; without an assistant message at or before the cutoff nothing is
\* dropped; a list no longer than max_messages comes back unchanged.
C36_AsClaimed ==
    (limiter_call.called /\ limiter_call.by = "valid_truncate")
    => TruncationShape(limiter_call.messages, limiter_call.max_messages, limiter_call.out)

\* C36 amended: the shape holds for max_messages >= 2; with max_messages = 1
\* a list of more than one message comes back as its first message alone,
\* whatever the roles of the others.
C36_ShapeFromTwo ==
    (limiter_call.called /\ limiter_call.by = "valid_truncate")
    => IF limiter_call.max_messages >= 2
       THEN TruncationShape(limiter_call.messages, limiter_call.max_messages,
                            limiter_call.out)
       ELSE IF Len(limiter_call.messages) > 1
            THEN limiter_call.out = <<limiter_call.messages[1]>>
            ELSE limiter_call.out = limiter_call.messages

\* a list cut at an assistant message that lies before the ideal cutoff
C36_Witness ==
    /\ limiter_call.called /\ limiter_call.by = "valid_truncate"
    /\ limiter_call.max_messages >= 2
    /\ Len(limiter_call.out) < Len(limiter_call.messages)
    /\ Len(limiter_call.out) > limiter_call.max_messages
    /\ limiter_call.out[2].role = "assistant"

C37_CutAndLonger ==
    /\ memory_context.built /\ memory_context.out.exceeded
    /\ memory_context.out.length = MAX_CONTEXT_LENGTH + MarkerLen

\* C38: with a clock that never goes back, the order of the cache (least to
\* most recently used) is sorted by last_activity, created_at <= last_activity
\* for every entry, so the first entry (the capacity eviction's victim) has a
\* minimal last_activity and the entries past their timeout are a prefix of
\* the order; the victim of a capacity eviction is such a first entry.
C38_OrderFollowsLastActivity ==
    /\ [](/\ \A i, j \in 1..Len(session_cache) :
                i < j => session_cache[i].last_activity <= session_cache[j].last_activity
          /\ \A i \in 1..Len(session_cache) :
                session_cache[i].created_at <= session_cache[i].last_activity
          /\ \A i \in 1..Len(session_cache) :
                session_cache[1].last_activity <= session_cache[i].last_activity
          /\ \A i, j \in 1..Len(session_cache) :
                (i < j /\ clock - session_cache[j].last_activity > CACHE_TIMEOUT)
                   => clock - session_cache[i].last_activity > CACHE_TIMEOUT)
    /\ [][(Stepped("put") /\ last'.evicted # None)
             => (\A i \in 1..Len(session_cache) :
                   Entry(session_cache, last'.evicted).last_activity
                      <= session_cache[i].last_activity)]_vars
    /\ [][clock' >= clock]_vars

\* two entries of different ages, the older one past its timeout and the
\* newer one used after it was created
C38_Witness ==
    /\ Len(session_cache) >= 2
    /\ clock - session_cache[1].last_activity > CACHE_TIMEOUT
    /\ clock - session_cache[Len(session_cache)].last_activity <= CACHE_TIMEOUT
    /\ session_cache[Len(session_cache)].created_at
          < session_cache[Len(session_cache)].last_activity

\* the round number of the most recently recorded user message
LastUserRound(msgs) ==
    LET users == {i \in 1..Len(msgs) : msgs[i].role = "user"} IN
    IF users = {} THEN 0 ELSE msgs[SetMax(users)].round_number

\* C40: in a fresh session with a memory manager whose answer calls are made
\* one after the other, every answer call that ends (with the answer, with
\* the degraded text or by raising) leaves round_count, the round_number
\* that get_answer reports, equal to the short-term memory's current_round,
\* which is the round number of the most recently recorded user message and
\* the round the call's own question was stored with.
C40_RoundCountIsCurrentRound ==
    [][(\E c \in Callers : tpc[c] = "awaiting_llm" /\ tpc'[c] = "idle")
          => (/\ tlast'.outcome \in {"answered", "degraded", "raised"}
              /\ round_count' = current_round'
              /\ current_round' = LastUserRound(messages')
              /\ tlast'.asked_round = round_count'
              /\ tlast'.call_no = round_count')]_vars

\* a third call ended with the degraded text after a compaction, the two
\* counters at 3
C40_Witness ==
    /\ tlast.outcome = "degraded"
    /\ tlast.call_no = 3
    /\ round_count = 3
    /\ current_round = 3
    /\ summaries # <<>>

\* the session was created and is not cached: it was removed
SessionRemoved == created /\ ~Contains(session_cache, TheSession)

\* C39: when the session is removed from the cache (by stop_test, by the
\* capacity eviction of another session's start, or by a sweep) while an
\* answer call for it awaits the LLM, the call can still complete; the step
\* that completes it leaves the session out of the cache and, when the LLM
\* answered, records the assistant message in the round of the question and
\* returns the answer; a removed session stays removed, and every later get
\* for its ID is a miss (404).
C39_RemovedDuringTurn ==
    /\ [](\A c \in Callers :
             (tpc[c] = "awaiting_llm" /\ SessionRemoved)
                => ENABLED (\E answer \in Answers : LlmAnswers(c, answer, TRUE, TRUE)))
    /\ [][((\E c \in Callers : tpc[c] = "awaiting_llm" /\ tpc'[c] = "idle")
             /\ SessionRemoved)
            => (/\ ~Contains(session_cache', TheSession)
                /\ session_cache' = session_cache
                /\ tlast'.outcome \in {"answered", "degraded", "raised"}
                /\ (messages' # messages)
                      => (/\ tlast'.outcome = "answered"
                          /\ tlast'.ret \in Answers
                          /\ messages' = Append(messages, messages'[Len(messages')])
                          /\ messages'[Len(messages')].role = "assistant"
                          /\ messages'[Len(messages')].content = tlast'.ret
                          /\ messages'[Len(messages')].round_number = tlast'.asked_round))]_vars
    /\ [][SessionRemoved => ~Contains(session_cache', TheSession)]_vars
    /\ [][(SessionRemoved /\ gets_started' = gets_started + 1)
            => (/\ tlast'.outcome = "404"
                /\ cache_stats'.misses = cache_stats.misses + 1
                /\ round_count' = round_count
                /\ messages' = messages)]_vars

\* the session was dropped by another session's start while its first call
\* awaited the LLM, the answer was recorded after that, and a later request
\* for the session was a miss
C39_Witness ==
    /\ SessionRemoved
    /\ last.op = "put" /\ last.evicted = TheSession
    /\ tlast.outcome = "404"
    /\ round_count = 1
    /\ Len(messages) = 2
    /\ messages[2].role = "assistant"
    /\ \A i \in 1..Len(session_cache) : session_cache[i].last_activity < messages[2].timestamp

\* stop_test was the only removal: the first call's answer is recorded and
\* a later request for the session was a miss
C39_WitnessStop ==
    /\ SessionRemoved
    /\ stopped = 1 /\ dropped = 0
    /\ tlast.outcome = "404"
    /\ round_count = 1
    /\ Len(messages) = 2

\* the same after a sweep, the answer recorded once the session was swept
C39_WitnessSweep ==
    /\ SessionRemoved
    /\ stopped = 0 /\ dropped = 1
    /\ tlast.outcome = "answered" /\ tlast.call_no = 1
    /\ cache_stats.hits = 1 /\ cache_stats.misses = 0
    /\ cache_stats.evictions = 1 /\ inserted = 1
    /\ messages[Len(messages)].timestamp - messages[1].timestamp > CACHE_TIMEOUT

====
